---- MODULE Spec2Model ----
(***************************************************************************)
(* Model of the chunking core of context-layer: countTokens,               *)
(* getOverlapText, chunkContent, chunkPages and chunkText.                  *)
(*                                                                         *)
(* A string is a sequence of one-character strings over Alphabet: a        *)
(* letter, a space, a newline and a sentence-ending punctuation mark.      *)
(***************************************************************************)
EXTENDS Integers, Sequences, FiniteSets, TLC

\* ------------------------------------------------------------------ bounds
MaxLen == 5
MaxChunkSize == 3
MaxOverlap == 2
MaxPages == 2
MaxIds == 10001
MaxTotalLen == 3
MaxCalls == 3
MaxClock == 3
MaxSaved == 2
MaxStored == 3
MaxUrlLen == 3
MaxPatternLen == 4
MaxTextLen == 3
MaxExtracted == 2
MaxProvided == 2

\* ------------------------------------------------------------- characters
Alphabet == {"a", " ", "\n", "."}

Spaces == {" ", "\n"}
Newlines == {"\n"}
Letters == {"a"}
Puncts == {"."}
IsSpace(c) == c \in Spaces
IsNewline(c) == c \in Newlines
IsLetter(c) == c \in Letters
IsPunct(c) == c \in Puncts

\* The first index j >= i at which the run of characters of the class that
\* starts at i ends (Len(s)+1 when it runs to the end of s).
RunEnd(s, i, class) ==
    CHOOSE j \in i..(Len(s) + 1) :
        /\ \A k \in i..(j - 1) : s[k] \in class
        /\ (j = Len(s) + 1 \/ s[j] \notin class)

StringsUpTo(alphabet, n) == UNION {[1..k -> alphabet] : k \in 0..n}

\* -------------------------------------------------------------- tokenizer
\* The encoder is tiktoken's for gpt-4 (cl100k_base).  It first cuts the
\* text into pieces with the pattern
\*   [^\r\n\p{L}\p{N}]?\p{L}+ | ?[^\s\p{L}\p{N}]+[\r\n]* | \s*[\r\n]+
\*   | \s+(?!\S) | \s+
\* (alternatives for contractions and digits cannot match over Alphabet)
\* and then encodes each piece on its own.  PieceEnd is the index after the
\* piece that starts at i.  A piece counts one token: the pieces a word, a
\* punctuation mark or a separator make (with a leading space or trailing
\* newlines) are single vocabulary entries.
PieceEnd(s, i) ==
    LET c == s[i]
        hasNext == i + 1 <= Len(s)
    IN  IF IsLetter(c) THEN RunEnd(s, i, Letters)
        ELSE IF (c = " " \/ IsPunct(c)) /\ hasNext /\ IsLetter(s[i + 1])
            THEN RunEnd(s, i + 1, Letters)
        ELSE IF IsPunct(c)
            THEN RunEnd(s, RunEnd(s, i, Puncts), Newlines)
        ELSE IF c = " " /\ hasNext /\ IsPunct(s[i + 1])
            THEN RunEnd(s, RunEnd(s, i + 1, Puncts), Newlines)
        ELSE LET e == RunEnd(s, i, Spaces)
                 nls == {k \in i..(e - 1) : IsNewline(s[k])}
             IN  IF nls # {}
                     THEN (CHOOSE k \in nls : \A m \in nls : m <= k) + 1
                 ELSE IF e = Len(s) + 1 THEN e
                 ELSE e - 1

RECURSIVE CountFrom(_, _)
CountFrom(s, i) ==
    IF i > Len(s) THEN 0 ELSE 1 + CountFrom(s, PieceEnd(s, i))

countTokens(text) == CountFrom(text, 1)

\* ------------------------------------------------------ string primitives
\* String.prototype.trim
Trim(s) ==
    LET keep == {k \in 1..Len(s) : ~IsSpace(s[k])}
    IN  IF keep = {} THEN <<>>
        ELSE SubSeq(s, CHOOSE k \in keep : \A m \in keep : k <= m,
                       CHOOSE k \in keep : \A m \in keep : m <= k)

\* content.split(/\n\n+/)
RECURSIVE SplitParagraphs(_)
SplitParagraphs(s) ==
    LET hits == {k \in 1..(Len(s) - 1) : IsNewline(s[k]) /\ IsNewline(s[k + 1])}
    IN  IF hits = {} THEN <<s>>
        ELSE LET i == CHOOSE k \in hits : \A m \in hits : k <= m
                 e == RunEnd(s, i, Newlines)
             IN  <<SubSeq(s, 1, i - 1)>> \o SplitParagraphs(SubSeq(s, e, Len(s)))

\* paragraph.split(/(?<=[.!?])\s+/)
RECURSIVE SplitSentences(_)
SplitSentences(s) ==
    LET hits == {k \in 2..Len(s) : IsSpace(s[k]) /\ IsPunct(s[k - 1])}
    IN  IF hits = {} THEN <<s>>
        ELSE LET i == CHOOSE k \in hits : \A m \in hits : k <= m
                 e == RunEnd(s, i, Spaces)
             IN  <<SubSeq(s, 1, i - 1)>> \o SplitSentences(SubSeq(s, e, Len(s)))

\* text.split(/\s+/)
RECURSIVE SplitWords(_)
SplitWords(s) ==
    LET hits == {k \in 1..Len(s) : IsSpace(s[k])}
    IN  IF hits = {} THEN <<s>>
        ELSE LET i == CHOOSE k \in hits : \A m \in hits : k <= m
                 e == RunEnd(s, i, Spaces)
             IN  <<SubSeq(s, 1, i - 1)>> \o SplitWords(SubSeq(s, e, Len(s)))

\* ----------------------------------------------------------- getOverlapText
\* Mutant: the loop goes on while the budget is merely met.
OverlapContinuesAtBudget(i, tokens, overlapTokens) == i >= 1 /\ tokens <= overlapTokens

\* The loop condition: a word is left and the budget is not yet reached.
OverlapContinues(i, tokens, overlapTokens) == i >= 1 /\ tokens < overlapTokens

\* The loop body: the word goes in front of the result.
OverlapPrepend(word, result) ==
    word \o (IF result # <<>> THEN <<" ">> \o result ELSE <<>>)

RECURSIVE OverlapLoop(_, _, _, _, _)
OverlapLoop(words, i, result, tokens, overlapTokens) ==
    IF OverlapContinues(i, tokens, overlapTokens)
        THEN LET r == OverlapPrepend(words[i], result)
             IN  OverlapLoop(words, i - 1, r, countTokens(r), overlapTokens)
        ELSE result

getOverlapText(text, overlapTokens) ==
    IF overlapTokens <= 0 THEN <<>>
    ELSE LET words == SplitWords(text)
         IN  OverlapLoop(words, Len(words), <<>>, 0, overlapTokens)

\* ------------------------------------------------------------ chunkContent
\* The loop state of chunkContent: chunks, currentChunk, currentTokens.
NewState == [chunks |-> <<>>, currentChunk |-> <<>>, currentTokens |-> 0]

\* Mutant: the chunk is pushed as accumulated, without trim().
FlushChunkUntrimmed(chs, cur) == Append(chs, cur)

\* chunks.push(currentChunk.trim())
FlushChunk(chs, cur) == Append(chs, Trim(cur))

\* Mutant: a paragraph that fills chunkSize exactly is split into sentences.
ParagraphExceedsAtBudget(paragraph, size) == countTokens(paragraph) >= size

\* The test of the first branch: paragraphTokens > chunkSize
ParagraphExceeds(paragraph, size) == countTokens(paragraph) > size

\* Mutant: the accumulator is pushed before an oversized paragraph even when
\* it is empty.
OversizedFlushAlways(st) ==
    [chunks |-> FlushChunk(st.chunks, st.currentChunk),
     currentChunk |-> <<>>, currentTokens |-> 0]

\* "Save current chunk if not empty", before an oversized paragraph is split.
OversizedFlush(st) ==
    IF st.currentChunk # <<>>
        THEN [chunks |-> FlushChunk(st.chunks, st.currentChunk),
              currentChunk |-> <<>>, currentTokens |-> 0]
        ELSE st

\* The sentence loop's test: currentTokens + sentenceTokens > chunkSize && currentChunk
SentenceOverflows(st, sentence, size) ==
    st.currentTokens + countTokens(sentence) > size /\ st.currentChunk # <<>>

\* One pass of the sentence loop.
SentenceStep(st, sentence, size, ov) ==
    IF SentenceOverflows(st, sentence, size)
        THEN LET overlapText == getOverlapText(st.currentChunk, ov)
                 cur == overlapText \o <<" ">> \o sentence
             IN  [chunks |-> FlushChunk(st.chunks, st.currentChunk),
                  currentChunk |-> cur, currentTokens |-> countTokens(cur)]
        ELSE [chunks |-> st.chunks,
              currentChunk |-> st.currentChunk
                  \o (IF st.currentChunk # <<>> THEN <<" ">> ELSE <<>>) \o sentence,
              currentTokens |-> st.currentTokens + countTokens(sentence)]

\* Mutant: a paragraph that fills the budget exactly counts as overflowing.
ParagraphOverflowsAtBudget(st, paragraph, size) ==
    st.currentTokens + countTokens(paragraph) >= size

\* The test of the second branch: currentTokens + paragraphTokens > chunkSize
ParagraphOverflows(st, paragraph, size) ==
    st.currentTokens + countTokens(paragraph) > size

\* Mutant: the re-seeded accumulator holds the overlap only; the paragraph
\* that did not fit is lost.
ParagraphStepDropping(st, paragraph, size, ov) ==
    IF st.currentTokens + countTokens(paragraph) > size
        THEN LET overlapText == getOverlapText(st.currentChunk, ov)
             IN  [chunks |-> Append(st.chunks, Trim(st.currentChunk)),
                  currentChunk |-> overlapText, currentTokens |-> countTokens(overlapText)]
        ELSE [chunks |-> st.chunks,
              currentChunk |-> st.currentChunk
                  \o (IF st.currentChunk # <<>> THEN <<"\n", "\n">> ELSE <<>>) \o paragraph,
              currentTokens |-> st.currentTokens + countTokens(paragraph)]

\* One pass of the paragraph loop for a paragraph that does not exceed chunkSize.
ParagraphStep(st, paragraph, size, ov) ==
    IF ParagraphOverflows(st, paragraph, size)
        THEN LET overlapText == getOverlapText(st.currentChunk, ov)
                 cur == overlapText \o <<"\n", "\n">> \o paragraph
             IN  [chunks |-> FlushChunk(st.chunks, st.currentChunk),
                  currentChunk |-> cur, currentTokens |-> countTokens(cur)]
        ELSE [chunks |-> st.chunks,
              currentChunk |-> st.currentChunk
                  \o (IF st.currentChunk # <<>> THEN <<"\n", "\n">> ELSE <<>>) \o paragraph,
              currentTokens |-> st.currentTokens + countTokens(paragraph)]

\* Mutant: the accumulator left after the loop is forgotten.
FinalFlushForgotten(st) == st.chunks

\* "Don't forget the last chunk"
FinalFlush(st) ==
    IF Trim(st.currentChunk) # <<>>
        THEN FlushChunk(st.chunks, st.currentChunk)
        ELSE st.chunks

RECURSIVE SentenceLoop(_, _, _, _)
SentenceLoop(st, sentences, size, ov) ==
    IF sentences = <<>> THEN st
    ELSE SentenceLoop(SentenceStep(st, Head(sentences), size, ov), Tail(sentences), size, ov)

RECURSIVE ParagraphLoop(_, _, _, _)
ParagraphLoop(st, paragraphs, size, ov) ==
    IF paragraphs = <<>> THEN st
    ELSE LET p == Head(paragraphs)
             nxt == IF ParagraphExceeds(p, size)
                        THEN SentenceLoop(OversizedFlush(st), SplitSentences(p), size, ov)
                        ELSE ParagraphStep(st, p, size, ov)
         IN  ParagraphLoop(nxt, Tail(paragraphs), size, ov)

\* chunkContent(content, chunkSize, overlap) as a function of its arguments.
chunkContent(text, size, ov) ==
    FinalFlush(ParagraphLoop(NewState, SplitParagraphs(text), size, ov))

\* ------------------------------------------------- chunkPages / chunkText
\* Mutant: the markdown case falls through to the default.
getDefaultChunkSizeNoMarkdown(outputFormat) ==
    CASE outputFormat = "rag" -> 500
      [] outputFormat \in {"finetune-openai", "finetune-alpaca"} -> 1000
      [] OTHER -> 500

getDefaultChunkSize(outputFormat) ==
    CASE outputFormat = "rag" -> 500
      [] outputFormat \in {"finetune-openai", "finetune-alpaca"} -> 1000
      [] outputFormat = "markdown" -> 2000
      [] OTHER -> 500

\* An options object is a record that holds the fields the caller passed; a
\* field that is not in its domain is undefined.
\* options.chunkSize || fallback
ResolveChunkSize(options, fallback) ==
    IF "chunkSize" \in DOMAIN options /\ options.chunkSize # 0
        THEN options.chunkSize
        ELSE fallback

\* options.chunkOverlap ?? 50
ResolveChunkOverlap(options) ==
    IF "chunkOverlap" \in DOMAIN options THEN options.chunkOverlap ELSE 50

\* String(n) for n >= 0, as a sequence of digit characters
Digit(d) == CASE d = 0 -> "0" [] d = 1 -> "1" [] d = 2 -> "2" [] d = 3 -> "3"
              [] d = 4 -> "4" [] d = 5 -> "5" [] d = 6 -> "6" [] d = 7 -> "7"
              [] d = 8 -> "8" [] d = 9 -> "9"

RECURSIVE String(_)
String(n) == IF n < 10 THEN <<Digit(n)>> ELSE String(n \div 10) \o <<Digit(n % 10)>>

\* Mutant: no padding at all.
padStartNone(s, targetLength, fill) == s

\* s.padStart(targetLength, fill) for a one-character fill
RECURSIVE padStart(_, _, _)
padStart(s, targetLength, fill) ==
    IF Len(s) >= targetLength THEN s ELSE padStart(<<fill>> \o s, targetLength, fill)

PadWidth == 4
IdPrefix == <<"c", "h", "u", "n", "k", "-">>

\* `chunk-${String(n).padStart(4, '0')}`
ChunkIdString(n) == IdPrefix \o padStart(String(n), PadWidth, "0")

\* page.headings[0] || ''
Section(headings) == IF headings # <<>> THEN headings[1] ELSE <<>>

\* Mutant: the id counter starts again at 0 for every page.
PageChunksIdReset(page, textChunks, firstId) ==
    [i \in 1..Len(textChunks) |->
        [id |-> IdPrefix \o padStart(String(i - 1), PadWidth, "0"),
         content |-> textChunks[i],
         tokenCount |-> countTokens(textChunks[i]),
         metadata |-> [source_url |-> page.url,
                       title |-> page.title,
                       section |-> IF page.headings # <<>> THEN page.headings[1] ELSE <<>>,
                       chunk_index |-> i - 1,
                       total_chunks |-> Len(textChunks)]]]

\* Mutant: chunk_index is the global chunk number, not the position in the page.
PageChunksGlobalIndex(page, textChunks, firstId) ==
    [i \in 1..Len(textChunks) |->
        [id |-> IdPrefix \o padStart(String(firstId + i - 1), PadWidth, "0"),
         content |-> textChunks[i],
         tokenCount |-> countTokens(textChunks[i]),
         metadata |-> [source_url |-> page.url,
                       title |-> page.title,
                       section |-> IF page.headings # <<>> THEN page.headings[1] ELSE <<>>,
                       chunk_index |-> firstId + i - 1,
                       total_chunks |-> Len(textChunks)]]]

\* The Chunk objects the inner loop of chunkPages pushes for one page, the
\* first of them numbered firstId.
PageChunks(page, textChunks, firstId) ==
    [i \in 1..Len(textChunks) |->
        [id |-> ChunkIdString(firstId + i - 1),
         content |-> textChunks[i],
         tokenCount |-> countTokens(textChunks[i]),
         metadata |-> [source_url |-> page.url,
                       title |-> page.title,
                       section |-> Section(page.headings),
                       chunk_index |-> i - 1,
                       total_chunks |-> Len(textChunks)]]]

\* Mutant: chunkText numbers its chunks from 1.
TextChunksOneBased(textChunks) ==
    [i \in 1..Len(textChunks) |->
        [id |-> IdPrefix \o padStart(String(i), PadWidth, "0"),
         content |-> textChunks[i],
         tokenCount |-> countTokens(textChunks[i]),
         metadata |-> [source_url |-> <<>>,
                       title |-> <<>>,
                       section |-> <<>>,
                       chunk_index |-> i,
                       total_chunks |-> Len(textChunks)]]]

\* What chunkText maps its text chunks to.
TextChunks(textChunks) ==
    [i \in 1..Len(textChunks) |->
        [id |-> ChunkIdString(i - 1),
         content |-> textChunks[i],
         tokenCount |-> countTokens(textChunks[i]),
         metadata |-> [source_url |-> <<>>,
                       title |-> <<>>,
                       section |-> <<>>,
                       chunk_index |-> i - 1,
                       total_chunks |-> Len(textChunks)]]]

\* chunkPages(pages, options) as a function of its arguments: the loop over
\* the pages from page idx on, with the chunks pushed so far and the counter.
RECURSIVE PagesLoop(_, _, _, _, _, _)
PagesLoop(pgs, idx, acc, id, size, ov) ==
    IF idx > Len(pgs) THEN acc
    ELSE LET textChunks == chunkContent(pgs[idx].content, size, ov)
         IN  PagesLoop(pgs, idx + 1, acc \o PageChunks(pgs[idx], textChunks, id),
                       id + Len(textChunks), size, ov)

chunkPages(pgs, opts) ==
    PagesLoop(pgs, 1, <<>>, 0,
              ResolveChunkSize(opts, getDefaultChunkSize(opts.outputFormat)),
              ResolveChunkOverlap(opts))

\* chunkText(text, options) as a function of its arguments.
chunkText(text, opts) ==
    TextChunks(chunkContent(text, ResolveChunkSize(opts, 500), ResolveChunkOverlap(opts)))

\* ------------------------------------------------------------------ inputs
\* Page contents: empty, whitespace only, one chunk, two paragraphs, two
\* sentences, a whitespace paragraph before a text paragraph.
PageContents ==
    { <<>>, <<" ">>, <<"a">>, <<"a", "\n", "\n", "a">>, <<"a", ".", " ", "a">>,
      <<" ", "\n", "\n", "a">> }
PageHeadings == { <<>>, << <<"h">>, <<"g">> >> }
PageSet ==
    [url : {<<"u">>}, title : {<<"t">>}, content : PageContents, headings : PageHeadings]
Formats == {"rag", "finetune-openai", "finetune-alpaca", "markdown", "", "csv"}
PageSizes == {0, 1, 2}
PageOverlaps == {0, 1}
PageOptions == [chunkSize : PageSizes, chunkOverlap : PageOverlaps, outputFormat : Formats]
\* Partial<ChunkOptions>: every subset of the fields
TextOptions ==
    UNION { [chunkSize : PageSizes, chunkOverlap : PageOverlaps],
            [chunkSize : PageSizes], [chunkOverlap : PageOverlaps], {<<>>} }

\* ------------------------------------------------------------ job records
RunIds == {"run1", "run2"}
KbIds == {"kb1", "kb2"}
JobErrors == {"No content extracted"}

\* store.getValue gives null for a key that was never set.
NoJob == <<>>

\* Partial progress updates.
ProgressUpdates ==
    { [phase |-> "chunking"],
      [current |-> 1, total |-> 2],
      [phase |-> "saving", current |-> 2, total |-> 2] }

\* { ...a, ...b }
Spread(a, b) ==
    [f \in DOMAIN a \cup DOMAIN b |-> IF f \in DOMAIN b THEN b[f] ELSE a[f]]

\* The job object createJob builds.
NewJob(runId, knowledgeBaseId, t) ==
    [id |-> runId,
     knowledgeBaseId |-> knowledgeBaseId,
     status |-> "pending",
     progress |-> [phase |-> "crawling", current |-> 0, total |-> 0],
     startedAt |-> t]

\* Mutant: updateJobProgress sets 'running' whatever the status was.
ProgressedAlwaysRunning(job, progress) ==
    Spread(job, [status |-> "running",
                 progress |-> Spread(job.progress, progress)])

\* The job object updateJobProgress stores.
Progressed(job, progress) ==
    Spread(job, [status |-> IF job.status = "pending" THEN "running" ELSE job.status,
                 progress |-> Spread(job.progress, progress)])

\* Mutant: a job that is completed or failed already is left as it is.
CompletedOnce(job, t) ==
    IF job.status \in {"completed", "failed"} THEN job
    ELSE Spread(job, [status |-> "completed", completedAt |-> t])

\* The job object completeJob stores.
Completed(job, t) == Spread(job, [status |-> "completed", completedAt |-> t])

\* The job object failJob stores.
Failed(job, t, error) ==
    Spread(job, [status |-> "failed", completedAt |-> t, error |-> error])

\* Mutant: an error of the knowledge-base update leaves the call.
KbFailureUncaught(kbThrew) == kbThrew

\* try { await updateKnowledgeBaseStatus(...) } catch { log.warning(...) }:
\* whether the call rejects after the knowledge-base update threw or not.
KbFailureCaught(kbThrew) == FALSE

\* -------------------------------------------------------- knowledge bases
\* getKnowledgeBase gives null for an id that was never stored.
NoKb == <<>>

\* The record createKnowledgeBase stores (name, sourceUrl and config left out).
NewKb(id, t) ==
    [id |-> id,
     createdAt |-> t,
     updatedAt |-> t,
     status |-> "processing",
     stats |-> [pageCount |-> 0, chunkCount |-> 0, totalTokens |-> 0]]

\* Partial stats updates.
StatsUpdates == { [pageCount |-> 2], [pageCount |-> 1, chunkCount |-> 0] }

\* The chunk lists saveChunks is given: the chunks of one run, which chunkPages
\* numbers from 0.
SavedChunks ==
    UNION { {cs \in [1..n -> [id : 0..(n - 1), tokenCount : {1, 2}]] :
                \A i \in 1..n : cs[i].id = i - 1} : n \in 0..MaxSaved }

\* chunks.reduce((sum, chunk) => sum + chunk.tokenCount, 0)
RECURSIVE SumTokens(_)
SumTokens(cs) == IF cs = <<>> THEN 0 ELSE Head(cs).tokenCount + SumTokens(Tail(cs))

\* The record updateKnowledgeBaseStats stores.
WithStats(kb, stats, t) ==
    Spread(kb, [stats |-> Spread(kb.stats, stats), updatedAt |-> t])

\* Mutant: the counts of the saved chunks replace the stored counts.
SavedStatsReplacing(kb, cs) ==
    [chunkCount |-> Len(cs), totalTokens |-> SumTokens(cs)]

\* The stats saveChunks passes to updateKnowledgeBaseStats.
SavedStats(kb, cs) ==
    [chunkCount |-> kb.stats.chunkCount + Len(cs),
     totalTokens |-> kb.stats.totalTokens + SumTokens(cs)]

\* addToKBIndex: the list it stores, or leaves, under kb_index.
AddedToIndex(index, id) ==
    IF \E i \in 1..Len(index) : index[i] = id THEN index ELSE Append(index, id)

\* removeFromKBIndex: index.filter(kbId => kbId !== id)
RemovedFromIndex(index, id) == SelectSeq(index, LAMBDA kbId : kbId # id)

\* ---------------------------------------------------------- matchesPattern
MAX_PATTERN_LENGTH == 1000

\* The characters of /[.+^${}()|[\]\\]/.
RegexSpecials == {".", "+", "^", "$", "{", "}", "(", ")", "|", "[", "]", "\\"}

\* s holds the string x at position i.
HasAt(s, i, x) == i >= 1 /\ i + Len(x) - 1 <= Len(s) /\ SubSeq(s, i, i + Len(x) - 1) = x

\* The pieces of a sequence of strings, one after the other.
RECURSIVE Concat(_, _, _)
Concat(pieces, lo, hi) ==
    IF lo > hi THEN <<>>
    ELSE IF lo = hi THEN pieces[lo]
    ELSE LET mid == (lo + hi) \div 2
         IN  Concat(pieces, lo, mid) \o Concat(pieces, mid + 1, hi)

\* The number of consecutive characters c just before position i of s.
RunBefore(s, i, c) ==
    LET others == {k \in 1..(i - 1) : s[k] # c}
    IN  IF others = {} THEN i - 1
        ELSE i - 1 - (CHOOSE k \in others : \A j \in others : j <= k)

\* str.replace(/c/g, to) for one character c.
ReplaceChar(s, c, to) ==
    Concat([i \in 1..Len(s) |-> IF s[i] = c THEN to ELSE <<s[i]>>], 1, Len(s))

\* A match of /\*\*/g starts at position i: matches are found left to right
\* and do not overlap, so in a run of stars they start at its 1st, 3rd, ... star.
PairStart(s, i) ==
    /\ i < Len(s)
    /\ s[i] = "*" /\ s[i + 1] = "*"
    /\ RunBefore(s, i, "*") % 2 = 0

\* str.replace(/\*\*/g, to)
ReplacePairs(s, to) ==
    Concat([i \in 1..Len(s) |->
               IF PairStart(s, i) THEN to
               ELSE IF i > 1 /\ PairStart(s, i - 1) THEN <<>>
               ELSE <<s[i]>>], 1, Len(s))

\* Mutant: a string of exactly MAX_PATTERN_LENGTH characters is refused too.
PatternTooLongAtMax(str) == Len(str) >= MAX_PATTERN_LENGTH

\* escapeRegex throws for a string above MAX_PATTERN_LENGTH ...
PatternTooLong(str) == Len(str) > MAX_PATTERN_LENGTH

\* ... and otherwise puts a backslash before every special character.
escapeRegex(str) ==
    Concat([i \in 1..Len(str) |->
               IF str[i] \in RegexSpecials THEN <<"\\", str[i]>> ELSE <<str[i]>>],
           1, Len(str))

\* The source of the RegExp: the three replacements, one after the other, each
\* on the result of the one before.
RegexSource(pattern) ==
    ReplaceChar(ReplaceChar(ReplacePairs(escapeRegex(pattern), <<".", "*">>),
                            "*", <<"[", "^", "/", "]", "*">>),
                "?", <<".">>)

\* Position i of the RegExp source is the character a backslash escapes.
IsEscaped(src, i) ==
    i > 1 /\ src[i - 1] = "\\" /\ RunBefore(src, i, "\\") % 2 = 1

\* Position i of the RegExp source opens the class [^/]: brackets of the
\* pattern itself are escaped.
OpensClass(src, i) == src[i] = "[" /\ ~IsEscaped(src, i)

\* Position i lies inside "[^/]*" after its bracket.
InClass(src, i) == \E k \in 1..4 : i - k >= 1 /\ OpensClass(src, i - k)

\* The RegExp as atoms: a literal character, "." (any character but a line
\* terminator), "[^/]*" (any run of characters other than '/').
RegexAtoms(src) ==
    Concat([i \in 1..Len(src) |->
               IF InClass(src, i) THEN <<>>
               ELSE IF OpensClass(src, i) THEN <<[kind |-> "notSlash", char |-> "/", star |-> TRUE]>>
               ELSE IF IsEscaped(src, i) THEN <<[kind |-> "char", char |-> src[i], star |-> FALSE]>>
               ELSE IF src[i] = "\\" THEN <<>>
               ELSE IF src[i] = "." THEN <<[kind |-> "any", char |-> ".", star |-> FALSE]>>
               ELSE <<[kind |-> "char", char |-> src[i], star |-> FALSE]>>],
           1, Len(src))

AtomTakes(atom, c) ==
    IF atom.kind = "char" THEN c = atom.char
    ELSE IF atom.kind = "notSlash" THEN c # "/"
    ELSE ~IsNewline(c)

\* The atoms from atom i on match url from position j on, up to anywhere.
RECURSIVE MatchesFrom(_, _, _, _)
MatchesFrom(atoms, i, url, j) ==
    IF i > Len(atoms) THEN TRUE
    ELSE IF atoms[i].star
        THEN \/ MatchesFrom(atoms, i + 1, url, j)
             \/ /\ j <= Len(url)
                /\ AtomTakes(atoms[i], url[j])
                /\ MatchesFrom(atoms, i, url, j + 1)
        ELSE /\ j <= Len(url)
             /\ AtomTakes(atoms[i], url[j])
             /\ MatchesFrom(atoms, i + 1, url, j + 1)

\* regex.test(url): the RegExp has no anchors, a match may start anywhere.
RegexTest(pattern, url) ==
    LET atoms == RegexAtoms(RegexSource(pattern))
    IN  \E j \in 1..(Len(url) + 1) : MatchesFrom(atoms, 1, url, j)

\* ------------------------------------------------------------ extraction
DEFAULT_MIN_CONTENT_LENGTH == 100

\* /\s/ over the characters of the model.
IsWhitespace(c) == c \in {" ", "\n"}

\* replace(/\s+/g, ' '): every run of whitespace becomes one space.
CollapseWhitespace(s) ==
    Concat([i \in 1..Len(s) |->
                IF ~IsWhitespace(s[i]) THEN <<s[i]>>
                ELSE IF i > 1 /\ IsWhitespace(s[i - 1]) THEN <<>>
                ELSE <<" ">>],
           1, Len(s))

\* cleanContent: whitespace runs collapse to one space and the ends are trimmed.
\* The boilerplate phrases it also removes ('See all 5 articles', 'Back to top',
\* ...) need letters and digits that the texts of the model do not have.
cleanContent(text) == Trim(CollapseWhitespace(text))

\* extractContent(html, url, _options), from the text of the main content
\* element on: the options are not read.
extractContent(mainContent, url, opts) ==
    [url |-> url, content |-> cleanContent(mainContent)]

\* options.minContentLength ?? 100
MinContentLength(opts) ==
    IF "minContentLength" \in DOMAIN opts THEN opts.minContentLength
    ELSE DEFAULT_MIN_CONTENT_LENGTH

\* Array.filter: the elements that pass, in their order.
RECURSIVE Filtered(_, _)
Filtered(seq, keep) ==
    IF seq = <<>> THEN <<>>
    ELSE (IF Head(seq) \in keep THEN <<Head(seq)>> ELSE <<>>) \o Filtered(Tail(seq), keep)

\* filter(page => page.content.length >= minContentLength)
LongEnough(extracted, min) == {p \in extracted : Len(p.content) >= min}

\* extractPages(pages, options): pages[i] is the main content text of page i,
\* whose url is i.
extractPages(pgs, opts) ==
    LET mapped == [i \in 1..Len(pgs) |-> extractContent(pgs[i], i, opts)]
    IN  Filtered(mapped, LongEnough({mapped[i] : i \in 1..Len(pgs)}, MinContentLength(opts)))

\* ------------------------------------------------- enrichment and embedding
EmbedBatchSize == 20
EnrichBatchSize == 5

\* chunks.slice(i, i + size), i counted from 0.
Slice(seq, i, size) ==
    SubSeq(seq, i + 1, IF i + size < Len(seq) THEN i + size ELSE Len(seq))

\* { ...batch[j], embedding: response.data[j].embedding }
WithEmbedding(chunk) == Spread(chunk, [embedding |-> "vector"])

\* The try block of embedChunks when response.data holds n results: the chunks
\* pushed before the loop ends or reading response.data[n] throws.
EmbedTry(batch, n) ==
    [j \in 1..(IF n < Len(batch) THEN n ELSE Len(batch)) |-> WithEmbedding(batch[j])]

\* The catch block of embedChunks: the whole batch is pushed as it came.
EmbedCatch(batch) == batch

\* enrichSingleChunk: { ...chunk, enrichment } with what parseEnrichmentResponse
\* made of the answer, or the chunk itself when the provider call threw.
EnrichOutcomes == {"threw", "empty", "summary"}

enrichSingleChunk(chunk, outcome) ==
    IF outcome = "threw" THEN chunk
    ELSE Spread(chunk, [enrichment |-> IF outcome = "empty" THEN <<>>
                                       ELSE [summary |-> "summary"]])

\* ------------------------------------------------------------------- state
VARIABLES
    api,                             \* the entry point this behaviour runs
    content, chunkSize, overlap,     \* the arguments of the chunkContent call
    paragraphs, sentences,           \* what the two loops still have to visit
    chunks, currentChunk, currentTokens,
    pc,                              \* "loop" | "resolve" | "pages" | "ids" | "done"
    seeded, seeds,                   \* history: overlap words the accumulator was
                                     \* re-seeded with, and the same per emitted chunk
    pages, options,                  \* the arguments of chunkPages / chunkText
    pageIdx,                         \* pages the outer loop has finished
    allChunks, chunkId,              \* chunkPages' result list and id counter
    lastId,                          \* the id of the chunk pushed last
    ovWords, ovIdx, ovResult, ovTokens,  \* getOverlapText's locals words, i, result, tokens
    callNo, firstArgs, firstResult,  \* history: the number of this call, and what the
                                     \* first call was given and returned
    jobs,                            \* the key-value store: the record under job_<runId>
    kbStatus,                        \* the status of each knowledge base
    now,                             \* the clock new Date() reads
    op,                              \* history: the storage call that returned last
    kbMeta,                          \* the key-value store: the record under kb_<id>_meta
    datasets,                        \* the items of the dataset kb-<id>
    patterns, patIdx, matched,       \* matchesPattern's patterns, the patterns tried so
                                     \* far, and what it returned
    exTexts, exOptions, exOut,       \* extraction: the main content text of each page,
                                     \* the options, and the pages returned
    pvChunks, pvI, pvOut,            \* enrichChunks / embedChunks: chunks, i and the
                                     \* chunks collected so far
    kbIndex,                         \* the key-value store: the list under kb_index
    procs,                           \* the storage calls in flight: where each is and
                                     \* what it has read
    batchRun                         \* runBatchMode: its input and the pipeline result

loopVars == <<paragraphs, sentences, chunks, currentChunk, currentTokens, seeded, seeds>>
argVars == <<api, content, chunkSize, overlap>>
pageVars == <<pages, options, pageIdx, allChunks, chunkId, lastId>>

ovVars == <<ovWords, ovIdx, ovResult, ovTokens>>
callVars == <<callNo, firstArgs, firstResult>>
\* What the chunking entry points never touch.
jobVars == <<jobs, kbStatus, now, op>>
kbVars == <<kbMeta, datasets>>
storeVars == <<jobVars, kbVars>>
matchVars == <<patterns, patIdx, matched>>
extractVars == <<exTexts, exOptions, exOut>>
provVars == <<pvChunks, pvI, pvOut>>
restVars == <<extractVars, provVars, kbIndex, procs, batchRun>>
moreVars == <<matchVars, restVars>>
extVars == <<ovVars, callVars, storeVars, moreVars>>

vars == <<api, content, chunkSize, overlap, paragraphs, sentences, chunks,
          currentChunk, currentTokens, pc, seeded, seeds, pages, options,
          pageIdx, allChunks, chunkId, lastId, extVars>>

\* The loop state as the record the step operators work on.
Cur == [chunks |-> chunks, currentChunk |-> currentChunk, currentTokens |-> currentTokens]

\* The words of a text: the non-empty pieces between whitespace.
Words(text) == SelectSeq(SplitWords(text), LAMBDA w : w # <<>>)

SetState(st) ==
    /\ chunks' = st.chunks
    /\ currentChunk' = st.currentChunk
    /\ currentTokens' = st.currentTokens

LoopIdle ==
    /\ paragraphs = <<>>
    /\ sentences = <<>>
    /\ chunks = <<>>
    /\ currentChunk = <<>>
    /\ currentTokens = 0
    /\ seeded = 0
    /\ seeds = <<>>

PagesIdle ==
    /\ pages = <<>>
    /\ options = <<>>
    /\ pageIdx = 0
    /\ allChunks = <<>>
    /\ chunkId = 0
    /\ lastId = <<>>

OverlapIdle ==
    /\ ovWords = <<>>
    /\ ovIdx = 0
    /\ ovResult = <<>>
    /\ ovTokens = 0

FirstCall ==
    /\ callNo = 1
    /\ firstArgs = <<>>
    /\ firstResult = <<>>

JobsIdle ==
    /\ jobs = [r \in RunIds |-> NoJob]
    /\ kbStatus = [k \in KbIds |-> "processing"]
    /\ now = 0
    /\ op = <<>>

KbIdle ==
    /\ kbMeta = [k \in KbIds |-> NoKb]
    /\ datasets = [k \in KbIds |-> <<>>]

StoreIdle == JobsIdle /\ KbIdle

MatchIdle ==
    /\ patterns = <<>>
    /\ patIdx = 0
    /\ matched = FALSE

ExtractIdle ==
    /\ exTexts = <<>>
    /\ exOptions = <<>>
    /\ exOut = <<>>

ProvIdle ==
    /\ pvChunks = <<>>
    /\ pvI = 0
    /\ pvOut = <<>>

LifeIdle ==
    /\ kbIndex = <<>>
    /\ procs = <<>>
    /\ batchRun = <<>>

RestIdle == ExtractIdle /\ ProvIdle /\ LifeIdle

MoreIdle == MatchIdle /\ RestIdle

ExtIdle == OverlapIdle /\ FirstCall /\ StoreIdle /\ MoreIdle

\* chunkContent(content, chunkSize, overlap) on entry to its loop.
InitChunk ==
    /\ api = "chunkContent"
    /\ content \in StringsUpTo(Alphabet, MaxLen)
    /\ chunkSize \in 1..MaxChunkSize
    /\ overlap \in 0..MaxOverlap
    /\ paragraphs = SplitParagraphs(content)
    /\ sentences = <<>>
    /\ chunks = <<>>
    /\ currentChunk = <<>>
    /\ currentTokens = 0
    /\ pc = "loop"
    /\ seeded = 0
    /\ seeds = <<>>
    /\ PagesIdle
    /\ ExtIdle

\* chunkPages(pages, options) on entry; chunkSize and overlap are its locals
\* chunkSize and chunkOverlap, not yet assigned.
InitPages ==
    /\ api = "chunkPages"
    /\ pages \in UNION {[1..n -> PageSet] : n \in 0..MaxPages}
    /\ options \in PageOptions
    /\ content = <<>>
    /\ chunkSize = 0
    /\ overlap = 0
    /\ pc = "resolve"
    /\ pageIdx = 0
    /\ allChunks = <<>>
    /\ chunkId = 0
    /\ lastId = <<>>
    /\ LoopIdle
    /\ ExtIdle

\* chunkText(text, options) on entry; content is its text.
InitText ==
    /\ api = "chunkText"
    /\ content \in PageContents
    /\ options \in TextOptions
    /\ pages = <<>>
    /\ chunkSize = 0
    /\ overlap = 0
    /\ pc = "resolve"
    /\ pageIdx = 0
    /\ allChunks = <<>>
    /\ chunkId = 0
    /\ lastId = <<>>
    /\ LoopIdle
    /\ ExtIdle

\* The history of a step that pushed (or did not push) a chunk and re-seeded
\* the accumulator with n overlap words.
Pushed(n) == seeds' = Append(seeds, seeded) /\ seeded' = n
NotPushed == UNCHANGED <<seeded, seeds>>

\* paragraphTokens > chunkSize: flush the accumulator and start the sentence loop.
ParagraphOversized ==
    /\ pc = "loop" /\ sentences = <<>> /\ paragraphs # <<>>
    /\ ParagraphExceeds(Head(paragraphs), chunkSize)
    /\ SetState(OversizedFlush(Cur))
    /\ sentences' = SplitSentences(Head(paragraphs))
    /\ paragraphs' = Tail(paragraphs)
    /\ IF currentChunk # <<>> THEN Pushed(0) ELSE NotPushed
    /\ UNCHANGED <<argVars, pc, pageVars>>
    /\ UNCHANGED extVars

\* A sentence that does not fit: push the accumulator, re-seed with overlap.
SentenceFlush ==
    /\ pc = "loop" /\ sentences # <<>>
    /\ SentenceOverflows(Cur, Head(sentences), chunkSize)
    /\ SetState(SentenceStep(Cur, Head(sentences), chunkSize, overlap))
    /\ sentences' = Tail(sentences)
    /\ Pushed(Len(Words(getOverlapText(currentChunk, overlap))))
    /\ UNCHANGED <<argVars, paragraphs, pc, pageVars>>
    /\ UNCHANGED extVars

\* A sentence that fits (or the first one of an empty accumulator).
SentenceAppend ==
    /\ pc = "loop" /\ sentences # <<>>
    /\ ~SentenceOverflows(Cur, Head(sentences), chunkSize)
    /\ SetState(SentenceStep(Cur, Head(sentences), chunkSize, overlap))
    /\ sentences' = Tail(sentences)
    /\ NotPushed
    /\ UNCHANGED <<argVars, paragraphs, pc, pageVars>>
    /\ UNCHANGED extVars

\* A paragraph within chunkSize that does not fit the accumulator.
ParagraphFlush ==
    /\ pc = "loop" /\ sentences = <<>> /\ paragraphs # <<>>
    /\ ~ParagraphExceeds(Head(paragraphs), chunkSize)
    /\ ParagraphOverflows(Cur, Head(paragraphs), chunkSize)
    /\ SetState(ParagraphStep(Cur, Head(paragraphs), chunkSize, overlap))
    /\ paragraphs' = Tail(paragraphs)
    /\ Pushed(Len(Words(getOverlapText(currentChunk, overlap))))
    /\ UNCHANGED <<argVars, sentences, pc, pageVars>>
    /\ UNCHANGED extVars

\* A paragraph that fits the accumulator.
ParagraphAppend ==
    /\ pc = "loop" /\ sentences = <<>> /\ paragraphs # <<>>
    /\ ~ParagraphExceeds(Head(paragraphs), chunkSize)
    /\ ~ParagraphOverflows(Cur, Head(paragraphs), chunkSize)
    /\ SetState(ParagraphStep(Cur, Head(paragraphs), chunkSize, overlap))
    /\ paragraphs' = Tail(paragraphs)
    /\ NotPushed
    /\ UNCHANGED <<argVars, sentences, pc, pageVars>>
    /\ UNCHANGED extVars

\* After the loop: push what is left, if it is more than whitespace, and return.
Return ==
    /\ pc = "loop" /\ sentences = <<>> /\ paragraphs = <<>>
    /\ chunks' = FinalFlush(Cur)
    /\ seeds' = IF Trim(currentChunk) # <<>> THEN Append(seeds, seeded) ELSE seeds
    /\ pc' = "done"
    /\ UNCHANGED <<argVars, paragraphs, sentences, currentChunk, currentTokens,
                   seeded, pageVars>>
    /\ UNCHANGED extVars

\* Mutant: the id counter outlives the call.
ResolvePagesOptionsKeepingId ==
    /\ api = "chunkPages" /\ pc = "resolve"
    /\ chunkSize' = ResolveChunkSize(options, getDefaultChunkSize(options.outputFormat))
    /\ overlap' = ResolveChunkOverlap(options)
    /\ allChunks' = <<>>
    /\ chunkId' = chunkId
    /\ pc' = "pages"
    /\ UNCHANGED <<api, content, loopVars, pages, options, pageIdx, lastId>>
    /\ UNCHANGED extVars

\* chunkPages: resolve chunkSize and chunkOverlap, start with no chunks and id 0.
ResolvePagesOptions ==
    /\ api = "chunkPages" /\ pc = "resolve"
    /\ chunkSize' = ResolveChunkSize(options, getDefaultChunkSize(options.outputFormat))
    /\ overlap' = ResolveChunkOverlap(options)
    /\ allChunks' = <<>>
    /\ chunkId' = 0
    /\ pc' = "pages"
    /\ UNCHANGED <<api, content, loopVars, pages, options, pageIdx, lastId>>
    /\ UNCHANGED extVars

\* chunkPages: one pass of the loop over the pages, the inner loop included.
ChunkPage ==
    /\ api = "chunkPages" /\ pc = "pages" /\ pageIdx < Len(pages)
    /\ LET page == pages[pageIdx + 1]
           textChunks == chunkContent(page.content, chunkSize, overlap)
           pushed == PageChunks(page, textChunks, chunkId)
       IN  /\ allChunks' = allChunks \o pushed
           /\ chunkId' = chunkId + Len(textChunks)
           /\ lastId' = IF pushed # <<>> THEN pushed[Len(pushed)].id ELSE lastId
    /\ pageIdx' = pageIdx + 1
    /\ UNCHANGED <<argVars, loopVars, pc, pages, options>>
    /\ UNCHANGED extVars

\* chunkPages: after the last page, log and return allChunks.
PagesReturn ==
    /\ api = "chunkPages" /\ pc = "pages" /\ pageIdx = Len(pages)
    /\ pc' = "done"
    /\ UNCHANGED <<argVars, loopVars, pageVars>>
    /\ UNCHANGED extVars

\* chunkText: resolve chunkSize and chunkOverlap.
ResolveTextOptions ==
    /\ api = "chunkText" /\ pc = "resolve"
    /\ chunkSize' = ResolveChunkSize(options, 500)
    /\ overlap' = ResolveChunkOverlap(options)
    /\ pc' = "text"
    /\ UNCHANGED <<api, content, loopVars, pageVars>>
    /\ UNCHANGED extVars

\* chunkText: chunk the text and map the text chunks to Chunk objects.
ChunkText ==
    /\ api = "chunkText" /\ pc = "text"
    /\ LET mapped == TextChunks(chunkContent(content, chunkSize, overlap))
       IN  /\ allChunks' = mapped
           /\ lastId' = IF mapped # <<>> THEN mapped[Len(mapped)].id ELSE lastId
    /\ pc' = "done"
    /\ UNCHANGED <<argVars, loopVars, pages, options, pageIdx, chunkId>>
    /\ UNCHANGED extVars

Init == InitChunk \/ InitPages \/ InitText

Next ==
    \/ ParagraphOversized
    \/ SentenceFlush
    \/ SentenceAppend
    \/ ParagraphFlush
    \/ ParagraphAppend
    \/ Return
    \/ ResolvePagesOptions
    \/ ChunkPage
    \/ PagesReturn
    \/ ResolveTextOptions
    \/ ChunkText

Spec == Init /\ [][Next]_vars

\* ------------------------------------------------------ a long run of ids
\* The id counter alone, over a run long enough for the counter to outgrow
\* the pad width: each step is one push of chunkPages' inner loop (its id is
\* String(chunkId++), padded) or one element of chunkText's map (String(i)).
InitIds ==
    /\ api \in {"chunkPages", "chunkText"}
    /\ pc = "ids"
    /\ content = <<>>
    /\ chunkSize = 0
    /\ overlap = 0
    /\ LoopIdle
    /\ PagesIdle
    /\ ExtIdle

PushPagesId ==
    /\ api = "chunkPages" /\ pc = "ids" /\ chunkId < MaxIds
    /\ lastId' = ChunkIdString(chunkId)
    /\ chunkId' = chunkId + 1
    /\ UNCHANGED <<argVars, loopVars, pc, pages, options, pageIdx, allChunks>>
    /\ UNCHANGED extVars

MapTextId ==
    /\ api = "chunkText" /\ pc = "ids" /\ chunkId < MaxIds
    /\ lastId' = ChunkIdString(chunkId)
    /\ chunkId' = chunkId + 1
    /\ UNCHANGED <<argVars, loopVars, pc, pages, options, pageIdx, allChunks>>
    /\ UNCHANGED extVars

\* chunkContent alone, on the shorter contents and the page contents, each call
\* run to its return: the code has no await and no other thread, so a step
\* that can be taken is taken.
InitTotal ==
    /\ InitChunk
    /\ content \in StringsUpTo(Alphabet, MaxTotalLen) \cup PageContents

NextTotal ==
    \/ ParagraphOversized
    \/ SentenceFlush
    \/ SentenceAppend
    \/ ParagraphFlush
    \/ ParagraphAppend
    \/ Return

SpecTotal == InitTotal /\ [][NextTotal]_vars /\ WF_vars(NextTotal)

NextIds == PushPagesId \/ MapTextId

SpecIds == InitIds /\ [][NextIds]_vars

\* ------------------------------------------------- one call after another
\* The three entry points called one after another in one process.  What a
\* call returned stays where it was until the code of the next call assigns
\* it: only what the code initialises on entry is initialised.
RepeatContents == { <<"a", "\n", "\n", "a">>, <<"a", ".", " ", "a">> }

RepeatPages ==
    UNION { [1..n -> [url : {<<"u">>}, title : {<<"t">>}, content : RepeatContents,
                      headings : {<<>>}]] : n \in 0..MaxPages }

RepeatArgs ==
    UNION { [api : {"chunkPages"}, pages : RepeatPages,
             options : [chunkSize : {1}, chunkOverlap : {0, 1}, outputFormat : {"rag"}],
             content : {<<>>}, chunkSize : {0}, overlap : {0}],
            [api : {"chunkText"}, pages : {<<>>},
             options : {<<>>, [chunkSize |-> 1, chunkOverlap |-> 1]},
             content : RepeatContents, chunkSize : {0}, overlap : {0}],
            [api : {"chunkContent"}, pages : {<<>>}, options : {<<>>},
             content : RepeatContents, chunkSize : {1, 2}, overlap : {0, 1}] }

\* The arguments and the result of the call in progress.
Args ==
    [api |-> api, pages |-> pages, options |-> options, content |-> content,
     chunkSize |-> IF api = "chunkContent" THEN chunkSize ELSE 0,
     overlap |-> IF api = "chunkContent" THEN overlap ELSE 0]

Result == IF api = "chunkContent" THEN chunks ELSE allChunks

\* Entry to a call with arguments a: chunkContent's locals are initialised on
\* entry, chunkPages' and chunkText's by their first statements.
Enter(a) ==
    /\ api' = a.api
    /\ pages' = a.pages
    /\ options' = a.options
    /\ content' = a.content
    /\ IF a.api = "chunkContent"
          THEN /\ chunkSize' = a.chunkSize
               /\ overlap' = a.overlap
               /\ paragraphs' = SplitParagraphs(a.content)
               /\ sentences' = <<>>
               /\ chunks' = <<>>
               /\ currentChunk' = <<>>
               /\ currentTokens' = 0
               /\ seeded' = 0
               /\ seeds' = <<>>
               /\ pc' = "loop"
          ELSE /\ UNCHANGED <<chunkSize, overlap, loopVars>>
               /\ pc' = "resolve"
    /\ pageIdx' = 0
    /\ UNCHANGED <<allChunks, chunkId, lastId, ovVars, storeVars, moreVars>>

InitRepeat ==
    /\ \E a \in RepeatArgs :
          /\ api = a.api
          /\ pages = a.pages
          /\ options = a.options
          /\ content = a.content
          /\ chunkSize = a.chunkSize
          /\ overlap = a.overlap
          /\ paragraphs = IF a.api = "chunkContent" THEN SplitParagraphs(a.content) ELSE <<>>
          /\ pc = IF a.api = "chunkContent" THEN "loop" ELSE "resolve"
    /\ sentences = <<>>
    /\ chunks = <<>>
    /\ currentChunk = <<>>
    /\ currentTokens = 0
    /\ seeded = 0
    /\ seeds = <<>>
    /\ pageIdx = 0
    /\ allChunks = <<>>
    /\ chunkId = 0
    /\ lastId = <<>>
    /\ ExtIdle

\* After a return, a call with any arguments.
CallOther ==
    /\ pc = "done" /\ callNo < MaxCalls - 1
    /\ callNo' = callNo + 1
    /\ IF callNo = 1
          THEN firstArgs' = Args /\ firstResult' = Result
          ELSE UNCHANGED <<firstArgs, firstResult>>
    /\ \E a \in RepeatArgs : Enter(a)

\* After a return, the first call over again.
CallSame ==
    /\ pc = "done" /\ callNo = MaxCalls - 1
    /\ callNo' = callNo + 1
    /\ IF callNo = 1
          THEN firstArgs' = Args /\ firstResult' = Result /\ Enter(Args)
          ELSE UNCHANGED <<firstArgs, firstResult>> /\ Enter(firstArgs)

NextRepeat == Next \/ CallOther \/ CallSame

SpecRepeat == InitRepeat /\ [][NextRepeat]_vars

\* ---------------------------------------------------------- getOverlapText
\* getOverlapText(content, overlap) on entry: content is its text, overlap its
\* overlapTokens.
InitOverlap ==
    /\ api = "getOverlapText"
    /\ content \in StringsUpTo(Alphabet, MaxLen)
    /\ chunkSize = 0
    /\ overlap \in -1..(MaxOverlap + 1)
    /\ pc = "overlap"
    /\ LoopIdle
    /\ PagesIdle
    /\ ExtIdle

\* if (overlapTokens <= 0) return ''
OverlapNone ==
    /\ api = "getOverlapText" /\ pc = "overlap"
    /\ overlap <= 0
    /\ pc' = "done"
    /\ UNCHANGED <<argVars, loopVars, pageVars, extVars>>

\* words = text.split(/\s+/); result = ''; tokens = 0; i = words.length - 1
OverlapSplit ==
    /\ api = "getOverlapText" /\ pc = "overlap"
    /\ overlap > 0
    /\ ovWords' = SplitWords(content)
    /\ ovIdx' = Len(SplitWords(content))
    /\ ovResult' = <<>>
    /\ ovTokens' = 0
    /\ pc' = "words"
    /\ UNCHANGED <<argVars, loopVars, pageVars, callVars, storeVars, moreVars>>

\* One turn of the loop.
OverlapWord ==
    /\ api = "getOverlapText" /\ pc = "words"
    /\ OverlapContinues(ovIdx, ovTokens, overlap)
    /\ ovResult' = OverlapPrepend(ovWords[ovIdx], ovResult)
    /\ ovTokens' = countTokens(OverlapPrepend(ovWords[ovIdx], ovResult))
    /\ ovIdx' = ovIdx - 1
    /\ UNCHANGED <<argVars, loopVars, pageVars, callVars, storeVars, moreVars, pc, ovWords>>

\* return result
OverlapReturn ==
    /\ api = "getOverlapText" /\ pc = "words"
    /\ ~OverlapContinues(ovIdx, ovTokens, overlap)
    /\ pc' = "done"
    /\ UNCHANGED <<argVars, loopVars, pageVars, extVars>>

NextOverlap == OverlapNone \/ OverlapSplit \/ OverlapWord \/ OverlapReturn

SpecOverlap == InitOverlap /\ [][NextOverlap]_vars

\* ------------------------------------------------------------ job tracking
\* The job functions of the storage module, called one after another on a
\* store that holds no job yet.
InitJobs ==
    /\ api = "jobs"
    /\ pc = "jobs"
    /\ content = <<>>
    /\ chunkSize = 0
    /\ overlap = 0
    /\ LoopIdle
    /\ PagesIdle
    /\ ExtIdle

notJobVars == <<argVars, loopVars, pageVars, pc, ovVars, callVars, kbVars, moreVars>>

\* What a call did: the record and the knowledge-base statuses it found,
\* whether it wrote the job, whether it called the knowledge-base update and
\* whether that threw, whether it rejected.
Did(name, runId, wroteJob, calledKb, kbThrew, rejected) ==
    [name |-> name, runId |-> runId, before |-> jobs[runId], kbBefore |-> kbStatus,
     wroteJob |-> wroteJob, calledKb |-> calledKb, kbThrew |-> kbThrew, rejected |-> rejected]

createJob ==
    /\ api = "jobs" /\ now < MaxClock
    /\ \E runId \in RunIds, knowledgeBaseId \in KbIds :
          /\ jobs' = [jobs EXCEPT ![runId] = NewJob(runId, knowledgeBaseId, now + 1)]
          /\ op' = Did("createJob", runId, TRUE, FALSE, FALSE, FALSE)
    /\ now' = now + 1
    /\ UNCHANGED <<kbStatus, notJobVars>>

updateJobProgress ==
    /\ api = "jobs"
    /\ \E runId \in RunIds, progress \in ProgressUpdates :
          IF jobs[runId] = NoJob
              THEN /\ op' = Did("updateJobProgress", runId, FALSE, FALSE, FALSE, FALSE)
                   /\ UNCHANGED jobs
              ELSE /\ jobs' = [jobs EXCEPT ![runId] = Progressed(jobs[runId], progress)]
                   /\ op' = Did("updateJobProgress", runId, TRUE, FALSE, FALSE, FALSE)
    /\ UNCHANGED <<kbStatus, now, notJobVars>>

\* updateKnowledgeBaseStatus(id, status): it sets the status or it throws.
KbUpdate(kbThrew, id, status) ==
    kbStatus' = IF kbThrew THEN kbStatus ELSE [kbStatus EXCEPT ![id] = status]

completeJob ==
    /\ api = "jobs"
    /\ \E runId \in RunIds :
          IF jobs[runId] = NoJob
              THEN /\ op' = Did("completeJob", runId, FALSE, FALSE, FALSE, FALSE)
                   /\ UNCHANGED <<jobs, kbStatus, now>>
              ELSE /\ now < MaxClock
                   /\ now' = now + 1
                   /\ jobs' = [jobs EXCEPT ![runId] = Completed(jobs[runId], now + 1)]
                   /\ \E kbThrew \in BOOLEAN :
                         /\ KbUpdate(kbThrew, jobs[runId].knowledgeBaseId, "ready")
                         /\ op' = Did("completeJob", runId, TRUE, TRUE, kbThrew,
                                      KbFailureCaught(kbThrew))
    /\ UNCHANGED notJobVars

failJob ==
    /\ api = "jobs"
    /\ \E runId \in RunIds, error \in JobErrors :
          IF jobs[runId] = NoJob
              THEN /\ op' = Did("failJob", runId, FALSE, FALSE, FALSE, FALSE)
                   /\ UNCHANGED <<jobs, kbStatus, now>>
              ELSE /\ now < MaxClock
                   /\ now' = now + 1
                   /\ jobs' = [jobs EXCEPT ![runId] = Failed(jobs[runId], now + 1, error)]
                   /\ \E kbThrew \in BOOLEAN :
                         /\ KbUpdate(kbThrew, jobs[runId].knowledgeBaseId, "failed")
                         /\ op' = Did("failJob", runId, TRUE, TRUE, kbThrew,
                                      KbFailureCaught(kbThrew))
    /\ UNCHANGED notJobVars

NextJobs == createJob \/ updateJobProgress \/ completeJob \/ failJob

SpecJobs == InitJobs /\ [][NextJobs]_vars

\* ------------------------------------------------- knowledge-base storage
\* updateKnowledgeBaseStats and saveChunks, called one after another; each
\* knowledge base is either not stored or as createKnowledgeBase stored it.
InitKb ==
    /\ api = "kb"
    /\ pc = "kb"
    /\ content = <<>>
    /\ chunkSize = 0
    /\ overlap = 0
    /\ LoopIdle
    /\ PagesIdle
    /\ OverlapIdle
    /\ FirstCall
    /\ JobsIdle
    /\ MoreIdle
    /\ kbMeta \in {[k \in KbIds |-> IF k \in ks THEN NewKb(k, 0) ELSE NoKb] :
                       ks \in SUBSET KbIds}
    /\ datasets = [k \in KbIds |-> <<>>]

notKbVars == <<argVars, loopVars, pageVars, pc, ovVars, callVars, jobs, kbStatus, moreVars>>

\* What a storage call did: what it was given, what it found, how many items
\* it pushed and records it set, whether it rejected.
KbDid(name, kbId, cs, pushed, set, rejected) ==
    [name |-> name, kbId |-> kbId, chunks |-> cs, metaBefore |-> kbMeta,
     dataBefore |-> datasets, nowBefore |-> now, pushed |-> pushed, set |-> set,
     rejected |-> rejected]

updateKnowledgeBaseStats ==
    /\ api = "kb"
    /\ \E id \in KbIds, stats \in StatsUpdates :
          IF kbMeta[id] = NoKb
              THEN /\ op' = KbDid("updateKnowledgeBaseStats", id, <<>>, 0, 0, TRUE)
                   /\ UNCHANGED <<kbMeta, now>>
              ELSE /\ now < MaxClock
                   /\ now' = now + 1
                   /\ kbMeta' = [kbMeta EXCEPT ![id] = WithStats(kbMeta[id], stats, now + 1)]
                   /\ op' = KbDid("updateKnowledgeBaseStats", id, <<>>, 0, 1, FALSE)
    /\ UNCHANGED <<datasets, notKbVars>>

saveChunks ==
    /\ api = "kb"
    /\ \E kbId \in KbIds, cs \in SavedChunks :
          IF Len(cs) = 0
              THEN /\ op' = KbDid("saveChunks", kbId, cs, 0, 0, FALSE)
                   /\ UNCHANGED <<kbMeta, datasets, now>>
              ELSE /\ Len(datasets[kbId]) + Len(cs) <= MaxStored
                   /\ datasets' = [datasets EXCEPT ![kbId] = datasets[kbId] \o cs]
                   /\ IF kbMeta[kbId] = NoKb
                         THEN /\ op' = KbDid("saveChunks", kbId, cs, Len(cs), 0, FALSE)
                              /\ UNCHANGED <<kbMeta, now>>
                         ELSE /\ now < MaxClock
                              /\ now' = now + 1
                              /\ kbMeta' = [kbMeta EXCEPT ![kbId] =
                                    WithStats(kbMeta[kbId], SavedStats(kbMeta[kbId], cs), now + 1)]
                              /\ op' = KbDid("saveChunks", kbId, cs, Len(cs), 1, FALSE)
    /\ UNCHANGED notKbVars

NextKb == updateKnowledgeBaseStats \/ saveChunks

SpecKb == InitKb /\ [][NextKb]_vars

\* ------------------------------------------- knowledge-base life cycle
\* createKnowledgeBase, saveChunks and deleteKnowledgeBase, called one after
\* another on a store that starts empty. A knowledge-base id stands for the
\* source URL generateKBId hashes to it.
InitKbLife ==
    /\ api = "kb"
    /\ pc = "kb"
    /\ content = <<>>
    /\ chunkSize = 0
    /\ overlap = 0
    /\ LoopIdle
    /\ PagesIdle
    /\ ExtIdle

notLifeVars == <<argVars, loopVars, pageVars, pc, ovVars, callVars, jobs, kbStatus,
                 matchVars, extractVars, provVars, procs, batchRun>>

createKnowledgeBase ==
    /\ api = "kb"
    /\ now < MaxClock
    /\ \E id \in KbIds :
          /\ kbMeta' = [kbMeta EXCEPT ![id] = NewKb(id, now + 1)]
          /\ kbIndex' = AddedToIndex(kbIndex, id)
          /\ op' = KbDid("createKnowledgeBase", id, <<>>, 0, 1, FALSE)
    /\ now' = now + 1
    /\ UNCHANGED <<datasets, notLifeVars>>

\* dataset.drop() deletes the dataset or throws, which is caught.
deleteKnowledgeBase ==
    /\ api = "kb"
    /\ \E id \in KbIds, dropped \in BOOLEAN :
          /\ datasets' = IF dropped THEN [datasets EXCEPT ![id] = <<>>] ELSE datasets
          /\ kbMeta' = [kbMeta EXCEPT ![id] = NoKb]
          /\ kbIndex' = RemovedFromIndex(kbIndex, id)
          /\ op' = KbDid("deleteKnowledgeBase", id, <<>>, 0, 1, FALSE)
    /\ UNCHANGED <<now, notLifeVars>>

NextKbLife == createKnowledgeBase \/ saveChunks \/ deleteKnowledgeBase

SpecKbLife == InitKbLife /\ [][NextKbLife]_vars

\* ------------------------------------------- storage calls in flight together
\* Two calls of saveChunks for one knowledge base, or two calls of
\* createKnowledgeBase for two source URLs, each running from await to await.
ProcIds == {"p1", "p2"}

\* A call that has not read anything yet.
Call(name, id, cs) ==
    [name |-> name, at |-> "start", id |-> id, chunks |-> cs,
     kb |-> NoKb, found |-> NoKb, index |-> <<>>]

InitRace ==
    /\ api = "race"
    /\ pc = "race"
    /\ content = <<>>
    /\ chunkSize = 0
    /\ overlap = 0
    /\ LoopIdle
    /\ PagesIdle
    /\ OverlapIdle
    /\ FirstCall
    /\ JobsIdle
    /\ MatchIdle
    /\ ExtractIdle
    /\ ProvIdle
    /\ batchRun = <<>>
    /\ datasets = [k \in KbIds |-> <<>>]
    /\ \/ /\ kbMeta = [k \in KbIds |-> IF k = "kb1" THEN NewKb(k, 0) ELSE NoKb]
          /\ kbIndex = <<"kb1">>
          /\ procs \in [ProcIds -> {Call("saveChunks", "kb1", cs) :
                                        cs \in SavedChunks \ {<<>>}}]
       \/ /\ kbMeta = [k \in KbIds |-> NoKb]
          /\ kbIndex = <<>>
          /\ procs \in {f \in [ProcIds -> {Call("createKnowledgeBase", k, <<>>) : k \in KbIds}] :
                            f["p1"].id # f["p2"].id}

notRaceVars == <<argVars, loopVars, pageVars, pc, ovVars, callVars, jobVars, matchVars,
                 extractVars, provVars, batchRun>>

\* The call p moves on to the step at, with what it read.
Moved(p, at, read) == procs' = [procs EXCEPT ![p] = Spread(procs[p], Spread(read, [at |-> at]))]

\* saveChunks: await dataset.pushData(chunks)
SavePush ==
    \E p \in ProcIds :
        /\ api = "race" /\ procs[p].name = "saveChunks" /\ procs[p].at = "start"
        /\ datasets' = [datasets EXCEPT ![procs[p].id] = datasets[procs[p].id] \o procs[p].chunks]
        /\ Moved(p, "pushed", <<>>)
        /\ UNCHANGED <<kbMeta, kbIndex, notRaceVars>>

\* saveChunks: const kb = await getKnowledgeBase(kbId)
SaveGet ==
    \E p \in ProcIds :
        /\ api = "race" /\ procs[p].name = "saveChunks" /\ procs[p].at = "pushed"
        /\ Moved(p, IF kbMeta[procs[p].id] = NoKb THEN "done" ELSE "got",
                 [kb |-> kbMeta[procs[p].id]])
        /\ UNCHANGED <<kbMeta, datasets, kbIndex, notRaceVars>>

\* updateKnowledgeBaseStats: const kb = await getKnowledgeBase(id)
StatsGet ==
    \E p \in ProcIds :
        /\ api = "race" /\ procs[p].name = "saveChunks" /\ procs[p].at = "got"
        /\ Moved(p, IF kbMeta[procs[p].id] = NoKb THEN "thrown" ELSE "found",
                 [found |-> kbMeta[procs[p].id]])
        /\ UNCHANGED <<kbMeta, datasets, kbIndex, notRaceVars>>

\* updateKnowledgeBaseStats: await store.setValue(key, kb)
StatsSet ==
    \E p \in ProcIds :
        /\ api = "race" /\ procs[p].name = "saveChunks" /\ procs[p].at = "found"
        /\ kbMeta' = [kbMeta EXCEPT ![procs[p].id] =
              WithStats(procs[p].found, SavedStats(procs[p].kb, procs[p].chunks), now + 1)]
        /\ now' = now + 1
        /\ Moved(p, "done", <<>>)
        /\ UNCHANGED <<datasets, kbIndex, jobs, kbStatus, op, argVars, loopVars, pageVars,
                       pc, ovVars, callVars, matchVars, extractVars, provVars, batchRun>>

\* createKnowledgeBase: await store.setValue(key, kb)
CreateSet ==
    \E p \in ProcIds :
        /\ api = "race" /\ procs[p].name = "createKnowledgeBase" /\ procs[p].at = "start"
        /\ kbMeta' = [kbMeta EXCEPT ![procs[p].id] = NewKb(procs[p].id, now + 1)]
        /\ now' = now + 1
        /\ Moved(p, "stored", <<>>)
        /\ UNCHANGED <<datasets, kbIndex, jobs, kbStatus, op, argVars, loopVars, pageVars,
                       pc, ovVars, callVars, matchVars, extractVars, provVars, batchRun>>

\* addToKBIndex: const index = await store.getValue(KB_INDEX_KEY) ?? []
IndexGet ==
    \E p \in ProcIds :
        /\ api = "race" /\ procs[p].name = "createKnowledgeBase" /\ procs[p].at = "stored"
        /\ Moved(p, IF AddedToIndex(kbIndex, procs[p].id) = kbIndex THEN "done" ELSE "read",
                 [index |-> kbIndex])
        /\ UNCHANGED <<kbMeta, datasets, kbIndex, notRaceVars>>

\* addToKBIndex: index.push(id); await store.setValue(KB_INDEX_KEY, index)
IndexSet ==
    \E p \in ProcIds :
        /\ api = "race" /\ procs[p].name = "createKnowledgeBase" /\ procs[p].at = "read"
        /\ kbIndex' = AddedToIndex(procs[p].index, procs[p].id)
        /\ Moved(p, "done", <<>>)
        /\ UNCHANGED <<kbMeta, datasets, notRaceVars>>

NextRace ==
    \/ SavePush \/ SaveGet \/ StatsGet \/ StatsSet
    \/ CreateSet \/ IndexGet \/ IndexSet

SpecRace == InitRace /\ [][NextRace]_vars

\* ------------------------------------------------------------ runBatchMode
\* One run of runBatchMode from the knowledge-base setup on, one step per
\* awaited call or group of calls. A step outside the job functions throws or
\* not; inside completeJob and failJob the knowledge-base update throws or not.
DefaultMaxPages == 50

OutputFormats == {"rag", "markdown", "finetune-openai"}

\* The record updateKnowledgeBaseStatus stores.
WithStatus(kb, status, t) == Spread(kb, [status |-> status, updatedAt |-> t])

\* A knowledge base an earlier run has filled and completed.
FilledKb(id) ==
    WithStatus(WithStats(NewKb(id, 0), [pageCount |-> 1, chunkCount |-> 1, totalTokens |-> 1], 0),
               "ready", 0)

InitBatch ==
    /\ api = "runBatchMode"
    /\ pc = "setup"
    /\ content = <<>>
    /\ chunkSize = 0
    /\ overlap = 0
    /\ LoopIdle
    /\ PagesIdle
    /\ OverlapIdle
    /\ FirstCall
    /\ JobsIdle
    /\ MatchIdle
    /\ ExtractIdle
    /\ ProvIdle
    /\ procs = <<>>
    /\ \E runId \in RunIds, kbId \in KbIds, format \in OutputFormats :
          batchRun = [runId |-> runId, kbId |-> kbId, outputFormat |-> format,
                      pages |-> 0, chunks |-> <<>>, threw |-> "nothing"]
    /\ \/ /\ kbMeta = [k \in KbIds |-> NoKb]
          /\ datasets = [k \in KbIds |-> <<>>]
          /\ kbIndex = <<>>
       \/ /\ kbMeta = [k \in KbIds |-> IF k = batchRun.kbId THEN FilledKb(k) ELSE NoKb]
          /\ datasets = [k \in KbIds |-> IF k = batchRun.kbId
                                         THEN <<[id |-> 0, tokenCount |-> 1]>> ELSE <<>>]
          /\ kbIndex = <<batchRun.kbId>>

notBatchVars == <<argVars, loopVars, pageVars, ovVars, callVars, kbStatus, op, matchVars,
                  extractVars, provVars, procs>>

\* The step that threw, for the steps that leave runBatchMode.
Threw(step) == batchRun' = [batchRun EXCEPT !.threw = step]

\* updateKnowledgeBaseStatus inside completeJob and failJob: it stores the
\* status, or it throws and the job function goes on.
JobKbUpdate(kbThrew, status) ==
    kbMeta' = IF kbThrew \/ kbMeta[batchRun.kbId] = NoKb THEN kbMeta
              ELSE [kbMeta EXCEPT ![batchRun.kbId] = WithStatus(@, status, now + 1)]

\* getKnowledgeBase, then createKnowledgeBase or updateKnowledgeBaseStatus.
BatchSetup ==
    /\ api = "runBatchMode" /\ pc = "setup"
    /\ IF kbMeta[batchRun.kbId] = NoKb
          THEN /\ kbMeta' = [kbMeta EXCEPT ![batchRun.kbId] = NewKb(batchRun.kbId, now + 1)]
               /\ kbIndex' = AddedToIndex(kbIndex, batchRun.kbId)
          ELSE /\ kbMeta' = [kbMeta EXCEPT ![batchRun.kbId] = WithStatus(@, "processing", now + 1)]
               /\ UNCHANGED kbIndex
    /\ now' = now + 1
    /\ pc' = "job"
    /\ UNCHANGED <<jobs, datasets, batchRun, notBatchVars>>

\* const job = await createJob(runId, kbId)
BatchCreateJob ==
    /\ api = "runBatchMode" /\ pc = "job"
    /\ jobs' = [jobs EXCEPT ![batchRun.runId] = NewJob(batchRun.runId, batchRun.kbId, now + 1)]
    /\ now' = now + 1
    /\ pc' = "crawling"
    /\ UNCHANGED <<kbMeta, datasets, kbIndex, batchRun, notBatchVars>>

\* await updateJobProgress(runId, { phase: 'crawling', current: 0, total: maxPages })
BatchCrawling ==
    /\ api = "runBatchMode" /\ pc = "crawling"
    /\ jobs' = [jobs EXCEPT ![batchRun.runId] =
          Progressed(@, [phase |-> "crawling", current |-> 0, total |-> DefaultMaxPages])]
    /\ pc' = "pipeline"
    /\ UNCHANGED <<now, kbMeta, datasets, kbIndex, batchRun, notBatchVars>>

\* runPipeline resolves with pages.
BatchPipeline ==
    /\ api = "runBatchMode" /\ pc = "pipeline"
    /\ \E n \in 1..MaxPages, cs \in SavedChunks :
          batchRun' = [batchRun EXCEPT !.pages = n, !.chunks = cs]
    /\ pc' = "saving"
    /\ UNCHANGED <<now, jobs, kbMeta, datasets, kbIndex, notBatchVars>>

\* runPipeline resolves without pages: failJob and return.
BatchNoContent ==
    /\ api = "runBatchMode" /\ pc = "pipeline"
    /\ jobs' = [jobs EXCEPT ![batchRun.runId] = Failed(@, now + 1, "No content extracted")]
    /\ \E kbThrew \in BOOLEAN : JobKbUpdate(kbThrew, "failed")
    /\ now' = now + 1
    /\ pc' = "returned"
    /\ UNCHANGED <<datasets, kbIndex, batchRun, notBatchVars>>

\* runPipeline throws: failJob in the catch block, and the error is thrown on.
BatchPipelineThrows ==
    /\ api = "runBatchMode" /\ pc = "pipeline"
    /\ jobs' = [jobs EXCEPT ![batchRun.runId] = Failed(@, now + 1, "pipeline error")]
    /\ \E kbThrew \in BOOLEAN : JobKbUpdate(kbThrew, "failed")
    /\ now' = now + 1
    /\ Threw("pipeline")
    /\ pc' = "thrown"
    /\ UNCHANGED <<datasets, kbIndex, notBatchVars>>

\* await updateJobProgress(runId, { phase: 'saving', ... })
BatchSaving ==
    /\ api = "runBatchMode" /\ pc = "saving"
    /\ jobs' = [jobs EXCEPT ![batchRun.runId] =
          Progressed(@, [phase |-> "saving", current |-> batchRun.pages,
                         total |-> batchRun.pages])]
    /\ pc' = "output"
    /\ UNCHANGED <<now, kbMeta, datasets, kbIndex, batchRun, notBatchVars>>

\* formatOutput, the dataset or key-value write of the output and the report.
BatchOutput ==
    /\ api = "runBatchMode" /\ pc = "output"
    /\ pc' = "save"
    /\ UNCHANGED <<now, jobs, kbMeta, datasets, kbIndex, batchRun, notBatchVars>>

\* One of them throws: no try block is around them.
BatchOutputThrows ==
    /\ api = "runBatchMode" /\ pc = "output"
    /\ Threw("output")
    /\ pc' = "thrown"
    /\ UNCHANGED <<now, jobs, kbMeta, datasets, kbIndex, notBatchVars>>

\* saveChunks, updateKnowledgeBaseStats({ pageCount }) and completeJob.
BatchSaveKb ==
    /\ api = "runBatchMode" /\ pc = "save"
    /\ LET kbId == batchRun.kbId
           cs == batchRun.chunks
           saved == IF cs = <<>> THEN kbMeta[kbId]
                    ELSE WithStats(kbMeta[kbId], SavedStats(kbMeta[kbId], cs), now + 1)
           counted == WithStats(saved, [pageCount |-> batchRun.pages], now + 1)
       IN  /\ datasets' = [datasets EXCEPT ![kbId] = @ \o cs]
           /\ \E kbThrew \in BOOLEAN :
                 kbMeta' = [kbMeta EXCEPT ![kbId] =
                     IF kbThrew THEN counted ELSE WithStatus(counted, "ready", now + 1)]
    /\ jobs' = [jobs EXCEPT ![batchRun.runId] = Completed(@, now + 1)]
    /\ now' = now + 1
    /\ pc' = "charge"
    /\ UNCHANGED <<kbIndex, batchRun, notBatchVars>>

\* saveChunks throws, before or after it pushed the chunks: failJob in the
\* catch block, and the run goes on.
BatchSaveKbThrows ==
    /\ api = "runBatchMode" /\ pc = "save"
    /\ \E pushed \in BOOLEAN :
          datasets' = IF pushed THEN [datasets EXCEPT ![batchRun.kbId] = @ \o batchRun.chunks]
                      ELSE datasets
    /\ jobs' = [jobs EXCEPT ![batchRun.runId] = Failed(@, now + 1, "Failed to save KB")]
    /\ \E kbThrew \in BOOLEAN : JobKbUpdate(kbThrew, "failed")
    /\ now' = now + 1
    /\ pc' = "charge"
    /\ UNCHANGED <<kbIndex, batchRun, notBatchVars>>

\* Actor.charge, whose error is caught, and return.
BatchReturn ==
    /\ api = "runBatchMode" /\ pc = "charge"
    /\ pc' = "returned"
    /\ UNCHANGED <<now, jobs, kbMeta, datasets, kbIndex, batchRun, notBatchVars>>

NextBatch ==
    \/ BatchSetup \/ BatchCreateJob \/ BatchCrawling
    \/ BatchPipeline \/ BatchNoContent \/ BatchPipelineThrows
    \/ BatchSaving \/ BatchOutput \/ BatchOutputThrows
    \/ BatchSaveKb \/ BatchSaveKbThrows \/ BatchReturn

SpecBatch == InitBatch /\ [][NextBatch]_vars

\* ---------------------------------------------------------- matchesPattern
\* matchesPattern(content, patterns): content is its url.
UrlChars == {"a", "b", "/"}
GlobChars == {"a", "b", "*", "?"}

\* 'a'.repeat(n)
Repeated(n) == [i \in 1..n |-> "a"]

ShortPatterns == StringsUpTo(GlobChars, MaxPatternLen)
LongPatterns == {Repeated(MAX_PATTERN_LENGTH), Repeated(MAX_PATTERN_LENGTH + 1)}
MixedPatterns == LongPatterns \cup {<<"a">>, <<"b", "*", "*", "b">>}

PatternLists ==
    {<<>>} \cup {<<p>> : p \in ShortPatterns \cup LongPatterns}
           \cup {<<p, q>> : p \in MixedPatterns, q \in MixedPatterns}

InitMatch ==
    /\ api = "matchesPattern"
    /\ content \in StringsUpTo(UrlChars, MaxUrlLen)
    /\ chunkSize = 0
    /\ overlap = 0
    /\ pc = "match"
    /\ LoopIdle
    /\ PagesIdle
    /\ OverlapIdle
    /\ FirstCall
    /\ StoreIdle
    /\ RestIdle
    /\ patterns \in PatternLists
    /\ patIdx = 0
    /\ matched = FALSE

notMatchVars == <<argVars, loopVars, pageVars, ovVars, callVars, storeVars, restVars,
                  patterns>>

\* if (patterns.length === 0) return true
MatchAny ==
    /\ api = "matchesPattern" /\ pc = "match"
    /\ Len(patterns) = 0
    /\ matched' = TRUE
    /\ pc' = "done"
    /\ UNCHANGED <<notMatchVars, patIdx>>

\* some(): escapeRegex throws on the next pattern.
MatchThrows ==
    /\ api = "matchesPattern" /\ pc = "match"
    /\ patIdx < Len(patterns)
    /\ PatternTooLong(patterns[patIdx + 1])
    /\ pc' = "thrown"
    /\ UNCHANGED <<notMatchVars, patIdx, matched>>

\* some(): the next pattern's RegExp matches, some() returns true.
MatchFound ==
    /\ api = "matchesPattern" /\ pc = "match"
    /\ patIdx < Len(patterns)
    /\ ~PatternTooLong(patterns[patIdx + 1])
    /\ RegexTest(patterns[patIdx + 1], content)
    /\ matched' = TRUE
    /\ patIdx' = patIdx + 1
    /\ pc' = "done"
    /\ UNCHANGED notMatchVars

\* some(): the next pattern's RegExp does not match, some() goes on.
MatchNext ==
    /\ api = "matchesPattern" /\ pc = "match"
    /\ patIdx < Len(patterns)
    /\ ~PatternTooLong(patterns[patIdx + 1])
    /\ ~RegexTest(patterns[patIdx + 1], content)
    /\ patIdx' = patIdx + 1
    /\ UNCHANGED <<notMatchVars, pc, matched>>

\* some(): no pattern is left, some() returns false.
MatchNone ==
    /\ api = "matchesPattern" /\ pc = "match"
    /\ Len(patterns) > 0 /\ patIdx = Len(patterns)
    /\ matched' = FALSE
    /\ pc' = "done"
    /\ UNCHANGED <<notMatchVars, patIdx>>

NextMatch == MatchAny \/ MatchThrows \/ MatchFound \/ MatchNext \/ MatchNone

SpecMatch == InitMatch /\ [][NextMatch]_vars

\* ------------------------------------------------- extractContent / extractPages
TextChars == {"a", " ", "\n"}

\* Texts around the default threshold of 100 characters.
LongTexts ==
    {Repeated(DEFAULT_MIN_CONTENT_LENGTH - 1),
     Repeated(DEFAULT_MIN_CONTENT_LENGTH),
     <<" ">> \o Repeated(DEFAULT_MIN_CONTENT_LENGTH - 1) \o <<" ", "\n">>}

MainTexts == StringsUpTo(TextChars, MaxTextLen) \cup LongTexts
PageTexts == {<<>>, <<"a">>, <<"a", " ", "a">>, <<" ", "a", "\n">>} \cup LongTexts

ExtractOptions ==
    {<<>>} \cup {[minContentLength |-> m] : m \in 0..MaxTextLen}

\* Every variable but those of the extraction.
notExtractVars == <<argVars, loopVars, pageVars, ovVars, callVars, storeVars, matchVars,
                    provVars, kbIndex, procs, batchRun>>

InitExtract ==
    /\ api \in {"extractContent", "extractPages"}
    /\ content = <<>>
    /\ chunkSize = 0
    /\ overlap = 0
    /\ pc = "extract"
    /\ LoopIdle
    /\ PagesIdle
    /\ OverlapIdle
    /\ FirstCall
    /\ StoreIdle
    /\ MatchIdle
    /\ ProvIdle
    /\ LifeIdle
    /\ exOptions \in ExtractOptions
    /\ IF api = "extractContent"
       THEN exTexts \in {<<t>> : t \in MainTexts}
       ELSE exTexts \in UNION {[1..n -> PageTexts] : n \in 0..MaxExtracted}
    /\ exOut = <<>>

ExtractContent ==
    /\ api = "extractContent" /\ pc = "extract"
    /\ exOut' = <<extractContent(exTexts[1], 1, exOptions)>>
    /\ pc' = "done"
    /\ UNCHANGED <<notExtractVars, exTexts, exOptions>>

ExtractPages ==
    /\ api = "extractPages" /\ pc = "extract"
    /\ exOut' = extractPages(exTexts, exOptions)
    /\ pc' = "done"
    /\ UNCHANGED <<notExtractVars, exTexts, exOptions>>

NextExtract == ExtractContent \/ ExtractPages

SpecExtract == InitExtract /\ [][NextExtract]_vars

\* ---------------------------------------------------- enrichChunks / embedChunks
\* The i-th chunk handed to the stage; embedChunks may get enriched chunks.
StageChunk(i, enriched) ==
    LET chunk == [id |-> i, content |-> <<"a">>, tokenCount |-> 1, metadata |-> i]
    IN  IF enriched THEN Spread(chunk, [enrichment |-> [summary |-> "summary"]])
        ELSE chunk

StageChunks(n, enriched) == [i \in 1..n |-> StageChunk(i, enriched)]

\* Every variable but those of the two stages.
notProvVars == <<argVars, loopVars, pageVars, ovVars, callVars, storeVars, matchVars,
                 extractVars, kbIndex, procs, batchRun>>

InitProv ==
    /\ api \in {"enrichChunks", "embedChunks"}
    /\ content = <<>>
    /\ chunkSize = 0
    /\ overlap = 0
    /\ pc = "batch"
    /\ LoopIdle
    /\ PagesIdle
    /\ OverlapIdle
    /\ FirstCall
    /\ StoreIdle
    /\ MatchIdle
    /\ ExtractIdle
    /\ LifeIdle
    /\ \E n \in 0..MaxProvided \cup (IF api = "enrichChunks"
                                     THEN {EnrichBatchSize, EnrichBatchSize + 1}
                                     ELSE {EmbedBatchSize, EmbedBatchSize + 1}) :
          \E enriched \in (IF api = "enrichChunks" THEN {FALSE} ELSE BOOLEAN) :
              pvChunks = StageChunks(n, enriched)
    /\ pvI = 0
    /\ pvOut = <<>>

\* One batch of embedChunks whose request returns a result for every text.
EmbedBatchOk ==
    /\ api = "embedChunks" /\ pc = "batch"
    /\ pvI < Len(pvChunks)
    /\ LET batch == Slice(pvChunks, pvI, EmbedBatchSize)
       IN  pvOut' = pvOut \o EmbedTry(batch, Len(batch))
    /\ pvI' = pvI + EmbedBatchSize
    /\ UNCHANGED <<notProvVars, pc, pvChunks>>

\* One batch of embedChunks whose request throws.
EmbedBatchFails ==
    /\ api = "embedChunks" /\ pc = "batch"
    /\ pvI < Len(pvChunks)
    /\ pvOut' = pvOut \o EmbedCatch(Slice(pvChunks, pvI, EmbedBatchSize))
    /\ pvI' = pvI + EmbedBatchSize
    /\ UNCHANGED <<notProvVars, pc, pvChunks>>

\* One batch of embedChunks whose response holds n results, fewer than texts:
\* response.data[n] is undefined and reading its embedding throws.
EmbedBatchShort ==
    /\ api = "embedChunks" /\ pc = "batch"
    /\ pvI < Len(pvChunks)
    /\ LET batch == Slice(pvChunks, pvI, EmbedBatchSize)
       IN  \E n \in 0..(Len(batch) - 1) :
              pvOut' = pvOut \o EmbedTry(batch, n) \o EmbedCatch(batch)
    /\ pvI' = pvI + EmbedBatchSize
    /\ UNCHANGED <<notProvVars, pc, pvChunks>>

EmbedReturn ==
    /\ api = "embedChunks" /\ pc = "batch"
    /\ pvI >= Len(pvChunks)
    /\ pc' = "done"
    /\ UNCHANGED <<notProvVars, provVars>>

\* One batch of enrichChunks: Promise.all over enrichSingleChunk.
EnrichBatch ==
    /\ api = "enrichChunks" /\ pc = "batch"
    /\ pvI < Len(pvChunks)
    /\ LET batch == Slice(pvChunks, pvI, EnrichBatchSize)
       IN  \E outcome \in [1..Len(batch) -> EnrichOutcomes] :
              pvOut' = pvOut \o [j \in 1..Len(batch) |->
                                    enrichSingleChunk(batch[j], outcome[j])]
    /\ pvI' = pvI + EnrichBatchSize
    /\ UNCHANGED <<notProvVars, pc, pvChunks>>

EnrichReturn ==
    /\ api = "enrichChunks" /\ pc = "batch"
    /\ pvI >= Len(pvChunks)
    /\ pc' = "done"
    /\ UNCHANGED <<notProvVars, provVars>>

NextProv ==
    \/ EmbedBatchOk \/ EmbedBatchFails \/ EmbedBatchShort \/ EmbedReturn
    \/ EnrichBatch \/ EnrichReturn

SpecProv == InitProv /\ [][NextProv]_vars

\* ================================================================== claims
RECURSIVE Flatten(_)
Flatten(seqs) == IF seqs = <<>> THEN <<>> ELSE Head(seqs) \o Flatten(Tail(seqs))

\* The words of a chunk that are its own: all but the n leading overlap words.
OwnWords(chunk, n) == SubSeq(Words(chunk), n + 1, Len(Words(chunk)))

\* c is a sentence of content, kept whole, whose own token count exceeds chunkSize.
IsOversizedSentence(c) ==
    \E p \in 1..Len(SplitParagraphs(content)) :
        LET ss == SplitSentences(SplitParagraphs(content)[p])
        IN  \E k \in 1..Len(ss) : countTokens(ss[k]) > chunkSize /\ c = Trim(ss[k])

HasRunOfThreeNewlines(s) ==
    \E k \in 1..(Len(s) - 2) : IsNewline(s[k]) /\ IsNewline(s[k + 1]) /\ IsNewline(s[k + 2])

RECURSIVE ParagraphTokenSum(_)
ParagraphTokenSum(ps) ==
    IF ps = <<>> THEN 0 ELSE countTokens(Head(ps)) + ParagraphTokenSum(Tail(ps))

NoOuterWhitespace(c) == c = <<>> \/ (~IsSpace(c[1]) /\ ~IsSpace(c[Len(c)]))

DigitChars == {"0", "1", "2", "3", "4", "5", "6", "7", "8", "9"}
DigitValue(c) == CHOOSE d \in 0..9 : Digit(d) = c

RECURSIVE ParseDecimal(_)
ParseDecimal(ds) ==
    IF ds = <<>> THEN 0
    ELSE 10 * ParseDecimal(SubSeq(ds, 1, Len(ds) - 1)) + DigitValue(ds[Len(ds)])

IdDigits(id) == SubSeq(id, Len(IdPrefix) + 1, Len(id))
IdNumber(id) == ParseDecimal(IdDigits(id))

\* The number of chunks page p gives, and of all pages before page p.
PageCount(p) == Len(chunkContent(pages[p].content, chunkSize, overlap))
RECURSIVE PageOffset(_)
PageOffset(p) == IF p <= 1 THEN 0 ELSE PageOffset(p - 1) + PageCount(p - 1)

\* C1: with 0 <= overlap < chunkSize, every chunk chunkContent returns counts
\* at most chunkSize tokens, except a chunk that is one sentence whose own
\* token count exceeds chunkSize.
C1_TokenBound ==
    (api = "chunkContent" /\ overlap < chunkSize) =>
        \A i \in 1..Len(chunks) :
            countTokens(chunks[i]) <= chunkSize \/ IsOversizedSentence(chunks[i])

\* C2: chunkContent neither drops nor reorders content: the chunks' words, in
\* output order and without the overlap words each chunk was re-seeded with,
\* are exactly the words of content.
C2_ContentPreserved ==
    (api = "chunkContent" /\ pc = "done") =>
        /\ Len(seeds) = Len(chunks)
        /\ Flatten([i \in 1..Len(chunks) |-> OwnWords(chunks[i], seeds[i])]) = Words(content)

C2_Witness ==
    /\ api = "chunkContent" /\ pc = "done"
    /\ Len(chunks) >= 2
    /\ \E i \in 1..Len(seeds) : seeds[i] > 0
    /\ \E i \in 1..Len(chunks) : countTokens(chunks[i]) > chunkSize /\ IsOversizedSentence(chunks[i])

\* C3: chunkContent returns the empty sequence for the empty string and for
\* every whitespace-only content, blank-line paragraph breaks included.
C3_WhitespaceOnlyGivesNoChunks ==
    (api = "chunkContent" /\ pc = "done" /\ Trim(content) = <<>>) => chunks = <<>>

\* C4 as claimed: for every non-empty content chunkContent returns at least one
\* chunk, and at least one returned chunk is a non-empty string.
C4_NonEmptyContentGivesChunk ==
    (api = "chunkContent" /\ pc = "done" /\ content # <<>>) =>
        \E i \in 1..Len(chunks) : chunks[i] # <<>>

\* C4 as amended: for every content that holds a character other than
\* whitespace chunkContent returns at least one chunk, and at least one
\* returned chunk is a non-empty string.
C4_NonBlankContentGivesChunk ==
    (api = "chunkContent" /\ pc = "done" /\ Trim(content) # <<>>) =>
        \E i \in 1..Len(chunks) : chunks[i] # <<>>

C4_Witness ==
    /\ api = "chunkContent" /\ pc = "done"
    /\ Trim(content) # <<>>
    /\ Len(chunks) >= 2
    /\ \E i \in 1..Len(chunks) : chunks[i] = <<>>

\* C5: every chunk string chunkContent returns, and every Chunk.content of
\* chunkPages and chunkText, has no leading and no trailing whitespace.
C5_ChunksTrimmed ==
    /\ \A i \in 1..Len(chunks) : NoOuterWhitespace(chunks[i])
    /\ \A k \in 1..Len(allChunks) : NoOuterWhitespace(allChunks[k].content)

C5_Witness ==
    /\ api = "chunkContent" /\ pc = "done"
    /\ Len(content) >= 3 /\ IsSpace(content[1]) /\ IsSpace(content[Len(content)])
    /\ \E i \in 1..Len(chunks) : chunks[i] # <<>>

\* C6 as claimed: a content whose token count is at most chunkSize comes back
\* as exactly one chunk, equal to content.trim().
C6_FittingContentIsOneChunk ==
    (api = "chunkContent" /\ pc = "done" /\ countTokens(content) <= chunkSize) =>
        chunks = <<Trim(content)>>

\* C6 as amended: a content whose paragraphs' token counts sum to at most
\* chunkSize, that is not whitespace only and has no run of three or more
\* newlines, comes back as exactly one chunk, equal to content.trim().
C6_FittingTextIsOneChunk ==
    (/\ api = "chunkContent" /\ pc = "done"
     /\ ParagraphTokenSum(SplitParagraphs(content)) <= chunkSize
     /\ Trim(content) # <<>>
     /\ ~HasRunOfThreeNewlines(content)) =>
        chunks = <<Trim(content)>>

C6_Witness ==
    /\ api = "chunkContent" /\ pc = "done"
    /\ ParagraphTokenSum(SplitParagraphs(content)) = chunkSize
    /\ Len(SplitParagraphs(content)) >= 2
    /\ Trim(content) # content
    /\ chunks = <<Trim(content)>>

\* C7: in one chunkPages call the k-th emitted chunk (k from 0) carries number
\* k, whatever page it came from: ids are pairwise distinct and strictly
\* increasing in emission order, also after pages that gave no chunk.
C7_IdsCountEmission ==
    (api = "chunkPages" /\ pc \in {"pages", "done"}) =>
        /\ chunkId = Len(allChunks)
        /\ \A k \in 1..Len(allChunks) : IdNumber(allChunks[k].id) = k - 1
        /\ \A j, k \in 1..Len(allChunks) :
              j < k => /\ allChunks[j].id # allChunks[k].id
                       /\ IdNumber(allChunks[j].id) < IdNumber(allChunks[k].id)

C7_Witness ==
    /\ api = "chunkPages" /\ pc = "done"
    /\ Len(pages) = 2
    /\ PageCount(1) = 0
    /\ PageCount(2) = 2
    /\ IdNumber(allChunks[2].id) = 1

\* C8 as claimed: every id has the form 'chunk-' followed by exactly four
\* decimal digits, for any number of chunks produced in the call.
C8_IdHasFourDigits ==
    (pc = "ids" /\ lastId # <<>>) =>
        /\ SubSeq(lastId, 1, Len(IdPrefix)) = IdPrefix
        /\ Len(IdDigits(lastId)) = 4
        /\ \A k \in 1..Len(IdDigits(lastId)) : IdDigits(lastId)[k] \in DigitChars

\* C8 as amended: every id is 'chunk-' followed by the chunk number in decimal,
\* zero-padded on the left to four digits: exactly four digits for a chunk
\* number below 10000, and the number's own five or more digits from 10000 on.
C8_IdHasAtLeastFourDigits ==
    (pc = "ids" /\ lastId # <<>>) =>
        /\ SubSeq(lastId, 1, Len(IdPrefix)) = IdPrefix
        /\ \A k \in 1..Len(IdDigits(lastId)) : IdDigits(lastId)[k] \in DigitChars
        /\ IdNumber(lastId) = chunkId - 1
        /\ Len(IdDigits(lastId)) >= 4
        /\ (chunkId - 1 < 10000 => Len(IdDigits(lastId)) = 4)
        /\ (chunkId - 1 >= 10000 => IdDigits(lastId)[1] # "0")

C8_Witness ==
    /\ pc = "ids" /\ api = "chunkText"
    /\ chunkId - 1 = 10000
    /\ Len(IdDigits(lastId)) = 5

\* C9: in chunkPages' output the chunks of each page are consecutive, pages in
\* input order and chunks in document order; a page that gave k chunks has
\* chunk_index 0..k-1 in output order and total_chunks = k on each of them.
C9_PageChunksContiguous ==
    (api = "chunkPages" /\ pc \in {"pages", "done"}) =>
        /\ Len(allChunks) = PageOffset(pageIdx + 1)
        /\ \A p \in 1..pageIdx :
              \A j \in 1..PageCount(p) :
                  LET c == allChunks[PageOffset(p) + j]
                  IN  /\ c.metadata.chunk_index = j - 1
                      /\ c.metadata.total_chunks = PageCount(p)
                      /\ c.content = chunkContent(pages[p].content, chunkSize, overlap)[j]
                      /\ c.metadata.source_url = pages[p].url
                      /\ c.metadata.section = Section(pages[p].headings)

C9_Witness ==
    /\ api = "chunkPages" /\ pc = "done"
    /\ Len(pages) = 2
    /\ PageCount(1) = 2
    /\ PageCount(2) = 2
    /\ allChunks[4].metadata.chunk_index = 1

\* C10: chunkPages chunks every page with the effective chunk size:
\* options.chunkSize when it is not zero, otherwise 500 for 'rag', 1000 for
\* 'finetune-openai' and 'finetune-alpaca', 2000 for 'markdown' and 500 for
\* any other outputFormat, the empty string included.
EffectiveChunkSize ==
    IF options.chunkSize # 0 THEN options.chunkSize
    ELSE IF options.outputFormat = "rag" THEN 500
    ELSE IF options.outputFormat = "finetune-openai" THEN 1000
    ELSE IF options.outputFormat = "finetune-alpaca" THEN 1000
    ELSE IF options.outputFormat = "markdown" THEN 2000
    ELSE 500

C10_EffectiveChunkSize ==
    (api = "chunkPages" /\ pc \in {"pages", "done"}) =>
        /\ chunkSize = EffectiveChunkSize
        /\ \A p \in 1..pageIdx :
              SubSeq([k \in 1..Len(allChunks) |-> allChunks[k].content],
                     PageOffset(p) + 1, PageOffset(p) + PageCount(p))
                  = chunkContent(pages[p].content, EffectiveChunkSize, overlap)

C10_Witness ==
    /\ api = "chunkPages" /\ pc = "done"
    /\ options.chunkSize = 0 /\ options.outputFormat = "markdown"
    /\ chunkSize = 2000
    /\ Len(allChunks) >= 2

\* The single page chunkText's text stands for.
TextAsPage == [url |-> <<>>, title |-> <<>>, content |-> content, headings |-> <<>>]

\* C11: chunkText treats its text as one page: with chunkSize > 0 and
\* chunkOverlap >= 0 given, it returns exactly what chunkPages returns for the
\* single page {url:'', title:'', content:text, headings:[]} with the same
\* chunkSize and chunkOverlap; with the options omitted it uses chunkSize 500
\* and chunkOverlap 50.  (chunkPages' own run returns what chunkPages, taken as
\* a function, gives.)
C11_TextIsOnePage ==
    /\ (api = "chunkPages" /\ pc = "done") => allChunks = chunkPages(pages, options)
    /\ (api = "chunkText" /\ pc = "done") =>
          /\ (DOMAIN options = {"chunkSize", "chunkOverlap"} /\ options.chunkSize > 0) =>
                \A f \in Formats :
                    allChunks = chunkPages(<<TextAsPage>>,
                                           [chunkSize |-> options.chunkSize,
                                            chunkOverlap |-> options.chunkOverlap,
                                            outputFormat |-> f])
          /\ DOMAIN options = {} => (chunkSize = 500 /\ overlap = 50)

C11_Witness ==
    /\ api = "chunkText" /\ pc = "done"
    /\ DOMAIN options = {"chunkSize", "chunkOverlap"}
    /\ options.chunkSize = 1 /\ options.chunkOverlap = 1
    /\ Len(allChunks) = 2
    /\ allChunks[2].metadata.chunk_index = 1

\* The part of a space-joined result that follows its first word.
WithoutFirstWord(result) ==
    LET spaces == {k \in 1..Len(result) : IsSpace(result[k])}
    IN  IF spaces = {} THEN <<>>
        ELSE LET first == CHOOSE k \in spaces : \A j \in spaces : k <= j
             IN  SubSeq(result, first + 1, Len(result))

RECURSIVE JoinWords(_)
JoinWords(ws) ==
    IF ws = <<>> THEN <<>>
    ELSE IF Len(ws) = 1 THEN ws[1]
    ELSE ws[1] \o <<" ">> \o JoinWords(Tail(ws))

\* The last m words of text, joined by single spaces.
LastWords(text, m) ==
    JoinWords(SubSeq(Words(text), Len(Words(text)) - m + 1, Len(Words(text))))

\* C12 as claimed: for every text and every budget > 0 the string
\* getOverlapText returns counts at most budget tokens.
C12_OverlapWithinBudget ==
    (api = "getOverlapText" /\ pc = "done" /\ overlap > 0) =>
        countTokens(ovResult) <= overlap

\* C12 as amended: for every text and every budget > 0 the string
\* getOverlapText returns may count more than budget tokens, but only by its
\* first word: what follows the first word counts fewer than budget tokens.
C12_OverlapOvershootsByOneWord ==
    (api = "getOverlapText" /\ pc = "done" /\ overlap > 0) =>
        countTokens(WithoutFirstWord(ovResult)) < overlap

C12_Witness ==
    /\ api = "getOverlapText" /\ pc = "done"
    /\ overlap = 2
    /\ countTokens(ovResult) = 3
    /\ countTokens(WithoutFirstWord(ovResult)) = 1

\* C13: getOverlapText returns '' when budget <= 0; otherwise it returns the
\* last m whitespace-separated words of text joined by single spaces, m being
\* the smallest number of trailing words whose joined token count is at least
\* budget, or all words when the whole text stays below budget; and the result
\* without its first word counts fewer than budget tokens.
C13_OverlapIsLastWords ==
    (api = "getOverlapText" /\ pc = "done") =>
        IF overlap <= 0 THEN ovResult = <<>>
        ELSE LET n == Len(Words(content))
                 enough == {m \in 1..n : countTokens(LastWords(content, m)) >= overlap}
             IN  /\ ovResult = IF enough = {} THEN LastWords(content, n)
                               ELSE LastWords(content, CHOOSE m \in enough :
                                                           \A k \in enough : m <= k)
                 /\ countTokens(WithoutFirstWord(ovResult)) < overlap

\* The words chunk i took over from chunk i - 1 are the overlap of chunk i - 1.
StartsWithOverlapOf(prev, chunk) ==
    LET ov == Words(getOverlapText(prev, overlap))
    IN  /\ Len(Words(chunk)) >= Len(ov)
        /\ SubSeq(Words(chunk), 1, Len(ov)) = ov

\* C14: with overlap > 0 every chunk after the first starts with the trailing
\* words of the chunk emitted immediately before it, at every boundary:
\* between paragraphs, between sentences, and before an oversized paragraph.
C14_ChunksStartWithOverlap ==
    (api = "chunkContent" /\ overlap > 0) =>
        \A i \in 2..Len(chunks) : StartsWithOverlapOf(chunks[i - 1], chunks[i])

\* x occurs in c as one contiguous piece.
IsPartOf(x, c) ==
    \E k \in 0..(Len(c) - Len(x)) : SubSeq(c, k + 1, k + Len(x)) = x

AppearsWhole(x) == Trim(x) = <<>> \/ \E i \in 1..Len(chunks) : IsPartOf(Trim(x), chunks[i])

\* C15: a paragraph whose token count is at most chunkSize (exactly chunkSize
\* included) is not split into sentences and appears whole inside a single
\* chunk; a paragraph above chunkSize is split at sentence boundaries only, so
\* each of its sentences appears whole inside a single chunk.
C15_SegmentsAppearWhole ==
    (api = "chunkContent" /\ pc = "done") =>
        \A p \in 1..Len(SplitParagraphs(content)) :
            LET paragraph == SplitParagraphs(content)[p]
            IN  IF countTokens(paragraph) <= chunkSize
                    THEN AppearsWhole(paragraph)
                    ELSE \A k \in 1..Len(SplitSentences(paragraph)) :
                             AppearsWhole(SplitSentences(paragraph)[k])

C15_Witness ==
    /\ api = "chunkContent" /\ pc = "done"
    /\ Len(SplitParagraphs(content)) = 1
    /\ countTokens(content) = chunkSize
    /\ Len(SplitSentences(content)) = 2
    /\ \E k \in 1..Len(content) : IsNewline(content[k])
    /\ chunks = <<content>>

\* The segments the loop works through: one per paragraph that does not exceed
\* chunkSize, one per sentence of a paragraph that does.
RECURSIVE SegmentCount(_, _)
SegmentCount(ps, size) ==
    IF ps = <<>> THEN 0
    ELSE (IF ParagraphExceeds(Head(ps), size) THEN Len(SplitSentences(Head(ps))) ELSE 1)
         + SegmentCount(Tail(ps), size)

\* The segments worked through so far.
SegmentsProcessed ==
    SegmentCount(SplitParagraphs(content), chunkSize)
        - (Len(sentences) + SegmentCount(paragraphs, chunkSize))

\* C16: chunkContent is total for every content, chunkSize > 0 and
\* overlap >= 0, overlap >= chunkSize included: every call returns, and at no
\* point has it pushed more chunks than it has worked through segments.
C16_ReturnsWithinSegments ==
    /\ [](api = "chunkContent" => Len(chunks) <= SegmentsProcessed)
    /\ (api = "chunkContent") ~> (api = "chunkContent" /\ pc = "done")

C16_Witness ==
    /\ api = "chunkContent" /\ pc = "done"
    /\ overlap >= chunkSize
    /\ Len(chunks) >= 2
    /\ Len(chunks) = SegmentCount(SplitParagraphs(content), chunkSize)

\* C17: chunkContent, chunkPages and chunkText keep nothing from one call to
\* the next: called again with the arguments of the first call, whatever was
\* called in between, each returns what the first call returned, the ids
\* starting again at chunk-0000.
C17_SameArgumentsSameResult ==
    (callNo = MaxCalls /\ pc = "done") =>
        /\ Args = firstArgs
        /\ Result = firstResult
        /\ (api # "chunkContent" /\ allChunks # <<>>) => allChunks[1].id = ChunkIdString(0)

C17_Witness ==
    /\ callNo = MaxCalls /\ pc = "done"
    /\ api = "chunkPages"
    /\ Len(allChunks) >= 3
    /\ chunks # <<>>
    /\ lastId = allChunks[Len(allChunks)].id

\* The status of a stored record; "none" where the store holds no record.
StatusOf(job) == IF job = NoJob THEN "none" ELSE job.status

\* Every field but the named ones is what it was.
SameBut(old, new, fields) ==
    /\ DOMAIN old \subseteq DOMAIN new
    /\ DOMAIN new \subseteq DOMAIN old \cup fields
    /\ \A f \in DOMAIN old \ fields : new[f] = old[f]

\* What each job function stores, for the call that returned last.
JobFunctionsStore ==
    (api = "jobs" /\ op # <<>> /\ op.wroteJob) =>
        LET old == op.before
            new == jobs[op.runId]
        IN  /\ op.name = "createJob" =>
                /\ new.id = op.runId
                /\ new.status = "pending"
                /\ new.progress = [phase |-> "crawling", current |-> 0, total |-> 0]
            /\ op.name = "updateJobProgress" =>
                /\ new.status = IF old.status = "pending" THEN "running" ELSE old.status
                /\ SameBut(old, new, {"status", "progress"})
                /\ \E u \in ProgressUpdates :
                      \A f \in DOMAIN new.progress :
                          new.progress[f] = IF f \in DOMAIN u THEN u[f] ELSE old.progress[f]
            /\ op.name = "completeJob" =>
                /\ new.status = "completed"
                /\ new.completedAt = now
                /\ SameBut(old, new, {"status", "completedAt"})
            /\ op.name = "failJob" =>
                /\ new.status = "failed"
                /\ new.error \in JobErrors
                /\ new.completedAt = now
                /\ SameBut(old, new, {"status", "completedAt", "error"})

\* C18 as claimed: a job's status only follows pending -> running ->
\* completed or failed, never back and never from one final status to the
\* other; createJob stores 'pending' with progress crawling/0/0,
\* updateJobProgress changes 'pending' to 'running', leaves any other status
\* and merges the progress fields keeping the other job fields, completeJob
\* stores 'completed', failJob stores 'failed' with the error, both set
\* completedAt.
C18_StatusOnlyForward ==
    /\ JobFunctionsStore
    /\ (api = "jobs" /\ op # <<>>) =>
          LET old == StatusOf(op.before)
              new == StatusOf(jobs[op.runId])
          IN  new # old =>
                  \/ old = "none" /\ new = "pending"
                  \/ old = "pending" /\ new \in {"running", "completed", "failed"}
                  \/ old = "running" /\ new \in {"completed", "failed"}

\* C18 as amended: the four job functions store what the claim says, but the
\* order pending -> running -> completed or failed is the callers' doing:
\* 'running' is entered from 'pending' only and only by updateJobProgress,
\* 'pending' is stored by createJob only, also over an existing record, and
\* completeJob and failJob store their status over any status, a final one
\* included.
C18_StatusFollowsCalls ==
    /\ JobFunctionsStore
    /\ (api = "jobs" /\ op # <<>>) =>
          LET old == StatusOf(op.before)
              new == StatusOf(jobs[op.runId])
          IN  new # old =>
                  \/ op.name = "createJob" /\ new = "pending"
                  \/ op.name = "updateJobProgress" /\ old = "pending" /\ new = "running"
                  \/ op.name = "completeJob" /\ old # "none" /\ new = "completed"
                  \/ op.name = "failJob" /\ old # "none" /\ new = "failed"

C18_Witness ==
    /\ api = "jobs" /\ op # <<>>
    /\ op.name = "failJob"
    /\ StatusOf(op.before) = "completed"
    /\ StatusOf(jobs[op.runId]) = "failed"
    /\ op.before.progress = [phase |-> "saving", current |-> 2, total |-> 2]

\* C19: completeJob sets the knowledge base of the job to 'ready' and failJob
\* to 'failed'; when that update throws, the job record is stored completed
\* or failed all the same and the call resolves; when the job does not exist,
\* neither the job store nor the knowledge base is written.
C19_KbFollowsJob ==
    (api = "jobs" /\ op # <<>> /\ op.name \in {"completeJob", "failJob"}) =>
        LET final == IF op.name = "completeJob" THEN "completed" ELSE "failed"
            kbFinal == IF op.name = "completeJob" THEN "ready" ELSE "failed"
        IN  /\ ~op.rejected
            /\ IF op.before = NoJob
                  THEN /\ jobs[op.runId] = NoJob
                       /\ kbStatus = op.kbBefore
                       /\ ~op.wroteJob /\ ~op.calledKb
                  ELSE /\ StatusOf(jobs[op.runId]) = final
                       /\ op.calledKb
                       /\ kbStatus = IF op.kbThrew THEN op.kbBefore
                                     ELSE [op.kbBefore EXCEPT
                                              ![op.before.knowledgeBaseId] = kbFinal]

C19_Witness ==
    /\ api = "jobs" /\ op # <<>>
    /\ op.name = "failJob"
    /\ op.kbThrew
    /\ StatusOf(op.before) = "running"
    /\ StatusOf(jobs[op.runId]) = "failed"
    /\ kbStatus[op.before.knowledgeBaseId] = "processing"
    /\ \E r \in RunIds : jobs[r] = NoJob

\* C20: saveChunks(kbId, chunks) with a non-empty list appends the chunks to
\* the dataset of that knowledge base and adds chunks.length to
\* stats.chunkCount and the sum of the chunks' tokenCount to
\* stats.totalTokens, leaving pageCount and all other metadata but updatedAt
\* as they were; with an empty list it writes nothing to storage; with the
\* metadata missing it still resolves.
C20_SaveChunksFrame ==
    (api = "kb" /\ op # <<>> /\ op.name = "saveChunks") =>
        LET old == op.metaBefore[op.kbId]
            new == kbMeta[op.kbId]
        IN  /\ ~op.rejected
            /\ \A k \in KbIds \ {op.kbId} :
                  kbMeta[k] = op.metaBefore[k] /\ datasets[k] = op.dataBefore[k]
            /\ IF op.chunks = <<>>
                  THEN /\ kbMeta = op.metaBefore
                       /\ datasets = op.dataBefore
                       /\ op.pushed = 0 /\ op.set = 0
                  ELSE /\ datasets[op.kbId] = op.dataBefore[op.kbId] \o op.chunks
                       /\ IF old = NoKb THEN new = NoKb
                          ELSE /\ new.stats.chunkCount = old.stats.chunkCount + Len(op.chunks)
                               /\ new.stats.totalTokens
                                     = old.stats.totalTokens + SumTokens(op.chunks)
                               /\ new.stats.pageCount = old.stats.pageCount
                               /\ DOMAIN new.stats = DOMAIN old.stats
                               /\ SameBut(old, new, {"stats", "updatedAt"})

C20_Witness ==
    /\ api = "kb" /\ op # <<>> /\ op.name = "saveChunks"
    /\ Len(op.chunks) = 2
    /\ op.metaBefore[op.kbId] # NoKb
    /\ op.metaBefore[op.kbId].stats.chunkCount = 1
    /\ op.metaBefore[op.kbId].stats.pageCount = 2
    /\ kbMeta[op.kbId].stats.chunkCount = 3
    /\ kbMeta[op.kbId].stats.totalTokens = 4

\* The literal text before and after the '**' of a pattern A**B.
IsLiteral(s) == \A k \in 1..Len(s) : s[k] \notin {"*", "?"}
IsDoubleStarPattern(p, A, B) == IsLiteral(A) /\ IsLiteral(B) /\ p = A \o <<"*", "*">> \o B

\* url holds A and, somewhere after it, B.
HoldsThenHolds(url, A, B) ==
    \E i \in 1..(Len(url) + 1), j \in 1..(Len(url) + 1) :
        /\ HasAt(url, i, A)
        /\ i + Len(A) <= j
        /\ HasAt(url, j, B)

\* C21: '**' matches any sequence of characters, '/' included: for a pattern
\* A**B with A and B free of wildcards and a url that holds A and later B,
\* matchesPattern(url, [pattern]) is true.
C21_DoubleStarMatchesAnything ==
    (api = "matchesPattern" /\ pc = "done" /\ Len(patterns) = 1) =>
        \A n \in 0..Len(patterns[1]) :
            LET A == SubSeq(patterns[1], 1, n)
                B == SubSeq(patterns[1], n + 3, Len(patterns[1]))
            IN  (IsDoubleStarPattern(patterns[1], A, B) /\ HoldsThenHolds(content, A, B))
                    => matched

\* C22 as claimed: matchesPattern throws whenever the pattern list holds a
\* pattern of more than 1000 characters, for any url and any other patterns in
\* the list, and does not throw for patterns of exactly 1000 characters.
C22_LongPatternAlwaysThrows ==
    (api = "matchesPattern" /\ pc \in {"done", "thrown"}) =>
        (pc = "thrown" <=> \E k \in 1..Len(patterns) : Len(patterns[k]) > 1000)

\* The patterns some() gets to: those with no matching pattern before them.
PatternsReached ==
    {k \in 1..Len(patterns) :
        \A j \in 1..(k - 1) : Len(patterns[j]) <= 1000 /\ ~RegexTest(patterns[j], content)}

\* C22 as amended: matchesPattern throws exactly when some() gets to a pattern
\* of more than 1000 characters, that is when no pattern before it in the list
\* matches the url; after a matching pattern a longer one is not looked at and
\* the call returns true.  Patterns of exactly 1000 characters do not throw.
C22_ReachedLongPatternThrows ==
    (api = "matchesPattern" /\ pc \in {"done", "thrown"}) =>
        (pc = "thrown" <=> \E k \in PatternsReached : Len(patterns[k]) > 1000)

C22_Witness ==
    /\ api = "matchesPattern" /\ pc = "done"
    /\ matched
    /\ Len(patterns) = 2
    /\ patterns[1] = <<"a">>
    /\ Len(patterns[2]) = 1001

\* C23: extractContent with minContentLength = m returns content '' when the
\* cleaned content is shorter than m and the cleaned content otherwise, and
\* extractPages keeps, in input order, exactly the pages whose cleaned content
\* has at least minContentLength (default 100) characters.
C23_ShortContentIsDropped ==
    pc = "done" =>
        /\ api = "extractContent" /\ "minContentLength" \in DOMAIN exOptions =>
              exOut[1].content =
                  IF Len(cleanContent(exTexts[1])) < exOptions.minContentLength
                  THEN <<>> ELSE cleanContent(exTexts[1])
        /\ api = "extractPages" =>
              LET kept == {i \in 1..Len(exTexts) :
                             Len(cleanContent(exTexts[i])) >= MinContentLength(exOptions)}
              IN  /\ {exOut[k].url : k \in 1..Len(exOut)} = kept
                  /\ Len(exOut) = Cardinality(kept)
                  /\ \A k \in 1..Len(exOut) :
                        /\ exOut[k].content = cleanContent(exTexts[exOut[k].url])
                        /\ k > 1 => exOut[k - 1].url < exOut[k].url

\* The half of C23 about extractPages.
C23_PagesHalf ==
    (pc = "done" /\ api = "extractPages") => C23_ShortContentIsDropped

\* The half of C23 about extractContent.
C23_ContentHalf ==
    (pc = "done" /\ api = "extractContent") => C23_ShortContentIsDropped

\* The fields a stage has to leave alone.
ChunkFrame == {"id", "content", "tokenCount", "metadata"}

FrameOf(chunk) == [f \in ChunkFrame |-> chunk[f]]

\* The result has one chunk per input chunk, in input order, with the frame
\* fields unchanged.
OnePerInput ==
    /\ Len(pvOut) = Len(pvChunks)
    /\ \A i \in 1..Len(pvChunks) : FrameOf(pvOut[i]) = FrameOf(pvChunks[i])

\* C24: enrichChunks and embedChunks each return exactly one chunk per input
\* chunk, in input order, with id, content, tokenCount and metadata unchanged,
\* whether the provider call succeeds, fails, or returns fewer results than
\* requested.
C24_OneChunkPerInput ==
    (api \in {"enrichChunks", "embedChunks"} /\ pc = "done") => OnePerInput

\* The half of C24 about enrichChunks.
C24_EnrichHalf ==
    (api = "enrichChunks" /\ pc = "done") => OnePerInput

\* C25: chunkContent never emits the empty string as a chunk: for every
\* content, whitespace-only paragraphs with a positive token count included,
\* every chunkSize > 0 and every overlap >= 0, each chunk is non-empty.
C25_NoEmptyChunk ==
    (api = "chunkContent" /\ chunkSize > 0 /\ overlap >= 0) =>
        \A i \in 1..Len(chunks) : chunks[i] # <<>>

\* No sentence of the chunk counts more than chunkSize tokens.
NoOversizedSentence(chunk) ==
    \A p \in 1..Len(SplitParagraphs(chunk)) :
        \A k \in 1..Len(SplitSentences(SplitParagraphs(chunk)[p])) :
            countTokens(SplitSentences(SplitParagraphs(chunk)[p])[k]) <= chunkSize

\* The overlap text the i-th chunk was re-seeded with.
SeedText(i) == JoinWords(SubSeq(Words(chunks[i]), 1, seeds[i]))

\* C26: for every overlap >= 0, overlap >= chunkSize included, a chunk that
\* contains no sentence exceeding chunkSize counts at most chunkSize tokens plus
\* the tokens of the overlap text it was re-seeded with, and that overlap text
\* counts fewer than overlap tokens plus those of one word.
C26_GrowthBounded ==
    (api = "chunkContent" /\ pc = "done") =>
        \A i \in 1..Len(chunks) :
            NoOversizedSentence(chunks[i]) =>
                /\ countTokens(chunks[i]) <= chunkSize + countTokens(SeedText(i))
                /\ seeds[i] > 0 => countTokens(WithoutFirstWord(SeedText(i))) < overlap

\* The second half of C26 alone: the overlap text of a chunk counts fewer than
\* overlap tokens plus those of its first word.
C26_SeedBounded ==
    (api = "chunkContent" /\ pc = "done") =>
        \A i \in 1..Len(chunks) :
            seeds[i] > 0 => countTokens(WithoutFirstWord(SeedText(i))) < overlap

\* job.completedAt, job.error: undefined while the field is not set.
FieldOf(job, f) == IF f \in DOMAIN job THEN job[f] ELSE "undefined"

IsTerminal(job) == StatusOf(job) \in {"completed", "failed"}

\* The call that returned last found the job completed or failed.
OnTerminalJob ==
    /\ api = "jobs" /\ op # <<>>
    /\ op.name \in {"updateJobProgress", "completeJob", "failJob"}
    /\ IsTerminal(op.before)

\* C27 as claimed: once a job is stored as 'completed' or 'failed', no later
\* updateJobProgress, completeJob or failJob for it changes its stored status,
\* completedAt or error.
C27_TerminalIsAbsorbing ==
    OnTerminalJob =>
        \A f \in {"status", "completedAt", "error"} :
            FieldOf(jobs[op.runId], f) = FieldOf(op.before, f)

\* C27 as amended: on a job stored as 'completed' or 'failed',
\* updateJobProgress leaves status, completedAt and error as they are;
\* completeJob stores 'completed' and failJob 'failed', each with a new
\* completedAt, failJob with its error, completeJob keeping the error there was.
C27_TerminalIsOverwritten ==
    OnTerminalJob =>
        LET old == op.before
            new == jobs[op.runId]
        IN  /\ op.name = "updateJobProgress" =>
                \A f \in {"status", "completedAt", "error"} :
                    FieldOf(new, f) = FieldOf(old, f)
            /\ op.name = "completeJob" =>
                /\ new.status = "completed"
                /\ new.completedAt = now /\ new.completedAt > old.completedAt
                /\ FieldOf(new, "error") = FieldOf(old, "error")
            /\ op.name = "failJob" =>
                /\ new.status = "failed"
                /\ new.completedAt = now /\ new.completedAt > old.completedAt
                /\ new.error \in JobErrors

C27_Witness ==
    /\ OnTerminalJob
    /\ op.name = "completeJob"
    /\ op.before.status = "failed"
    /\ jobs[op.runId].status = "completed"
    /\ FieldOf(jobs[op.runId], "error") \in JobErrors
    /\ jobs[op.runId].completedAt > op.before.completedAt

\* No two chunks of the list share an id.
DistinctIds(cs) == \A i, j \in 1..Len(cs) : cs[i].id = cs[j].id => i = j

\* The stored counts of a knowledge base are those of its dataset.
StatsMatchDataset(k) ==
    /\ kbMeta[k].stats.chunkCount = Len(datasets[k])
    /\ kbMeta[k].stats.totalTokens = SumTokens(datasets[k])

\* C29: after any sequence of createKnowledgeBase, saveChunks and
\* deleteKnowledgeBase, a knowledge base re-created and chunks saved by a
\* repeated run included, every existing knowledge base has stats.chunkCount
\* equal to the number of chunks in its dataset and stats.totalTokens equal to
\* the sum of their tokenCount, and no two chunks of its dataset share an id.
C29_StatsMatchStoredChunks ==
    api = "kb" =>
        \A k \in KbIds :
            kbMeta[k] # NoKb => StatsMatchDataset(k) /\ DistinctIds(datasets[k])

\* The counting half of C29 while no knowledge base is created twice or
\* deleted: the counts follow the dataset.
C29_CountsFollowSaves ==
    (api = "kb" /\ op # <<>> /\ op.name = "saveChunks") =>
        \A k \in KbIds :
            (kbMeta[k] # NoKb /\ op.metaBefore[k] # NoKb
                /\ op.metaBefore[k].stats.chunkCount = Len(op.dataBefore[k])) =>
                    kbMeta[k].stats.chunkCount = Len(datasets[k])

\* Every call in flight has returned.
AllReturned == \A p \in ProcIds : procs[p].at = "done"

\* C30: the metadata updates of two saveChunks calls for one knowledge base, or
\* of two createKnowledgeBase calls for two URLs, are not lost when the calls
\* interleave at their awaits: once both have returned, chunkCount and
\* totalTokens cover the chunks of both calls, and kb_index holds both ids.
C30_NoLostUpdate ==
    (api = "race" /\ AllReturned) =>
        /\ \A k \in KbIds : kbMeta[k] # NoKb => StatsMatchDataset(k)
        /\ \A p \in ProcIds :
              procs[p].name = "createKnowledgeBase" =>
                  \E i \in 1..Len(kbIndex) : kbIndex[i] = procs[p].id

\* What the calls of C30 do keep: every chunk of both calls is in the dataset,
\* and both metadata records are stored.
C30_DataKept ==
    (api = "race" /\ AllReturned) =>
        \A p \in ProcIds :
            IF procs[p].name = "saveChunks"
            THEN Len(datasets[procs[p].id]) = Len(procs["p1"].chunks) + Len(procs["p2"].chunks)
            ELSE kbMeta[procs[p].id] # NoKb

\* runBatchMode has returned or thrown after createJob stored the job.
BatchOver ==
    /\ api = "runBatchMode"
    /\ pc \in {"returned", "thrown"}
    /\ jobs[batchRun.runId] # NoJob

\* C28: in runBatchMode every created job reaches a terminal state: by the
\* time runBatchMode returns or throws, whichever later step failed, the job
\* is stored as 'completed' or 'failed' and its knowledge base as 'ready' or
\* 'failed'.
C28_JobEndsTerminal ==
    BatchOver =>
        /\ IsTerminal(jobs[batchRun.runId])
        /\ kbMeta[batchRun.kbId].status \in {"ready", "failed"}

\* What does hold of C28: the job is terminal unless the output or report
\* step threw, and then it is still 'running'.
C28_JobEndsTerminalButForOutput ==
    BatchOver =>
        IF batchRun.threw = "output"
        THEN StatusOf(jobs[batchRun.runId]) = "running"
        ELSE IsTerminal(jobs[batchRun.runId])
====
